---- MODULE Spec2Model ----
(***************************************************************************)
(* Column-level lineage extraction (sql_lineage_parser.py): the SQL         *)
(* normalizer, the column-ref extractor, the scope builder, the recursive   *)
(* resolver with its cycle/depth guards, and the mapping driver.            *)
(*                                                                          *)
(* Text is modelled as TLA+ strings handled character by character, so      *)
(* upper-casing, trimming, tokenising and splitting are computed as the     *)
(* Python code computes them.  The parsed statement (sqlglot's AST, an      *)
(* external library) is modelled as records: Select / Union nodes with      *)
(* their FROM source, JOINs, WITH entries and SELECT items.                 *)
(***************************************************************************)
EXTENDS Integers, Sequences, FiniteSets, TLC

VARIABLES
    pc,         \* position of process_sql_file / normalize_sql
    sql_ast,    \* the parsed statement handed to build_scope_tree
    dm_rows,    \* rows of the DM ATOMIC sheet: <<table, column>> as written
    dm_dict,    \* build_dm_dictionary(dm_rows): table -> set of columns
    set_order,  \* iteration order of a Python set of str in this run
    max_depth,  \* the max_depth argument
    stack_limit,\* interpreter recursion limit left to the resolver
    mappings,   \* the filtered mapping rows of the object
    row_idx,    \* index of the next mapping row to process
    tree,       \* the scope graph built by build_scope_tree
    edges,      \* result.edges
    last,       \* resolved_columns and call log of the row processed last
    warnings,   \* the logger.warning calls of the statistics step
    sql_text,   \* normalize_sql: the text being rewritten
    sql_orig,   \* normalize_sql: its input
    state_file, \* orchestrator: state.json of the task, <<>> while there is none
    state,      \* orchestrator: the TaskState of the running run_pipeline
    orch_pc,    \* orchestrator: position of run_pipeline
    phase_i,    \* orchestrator: the loop index i of run_pipeline, from 1
    succeeded,  \* orchestrator: the phases whose executor has returned True
    approved    \* orchestrator: the phases after which the human answered yes

orch_vars == <<state_file, state, orch_pc, phase_i, succeeded, approved>>

lineage_vars == <<pc, sql_ast, dm_rows, dm_dict, set_order, max_depth, stack_limit,
                  mappings, row_idx, tree, edges, last, warnings, sql_text, sql_orig>>

vars == <<lineage_vars, orch_vars>>

RECURSIVE call(_, _)

(***************************************************************************)
(* Python str primitives                                                    *)
(***************************************************************************)
ch(s, i) == SubSeq(s, i, i)

from(s, i) == SubSeq(s, i, Len(s))

LowerAlpha == "abcdefghijklmnopqrstuvwxyz"

UpperAlpha == "ABCDEFGHIJKLMNOPQRSTUVWXYZ"

DigitChars == "0123456789"

CharsOf(s) == {ch(s, i) : i \in 1..Len(s)}

LowerSet == CharsOf(LowerAlpha)

UpperSet == CharsOf(UpperAlpha)

DigitSet == CharsOf(DigitChars)

SpaceSet == {" ", "\t", "\n", "\r"}

is_alpha_(c) == c \in LowerSet \/ c \in UpperSet \/ c = "_"

is_word(c) == is_alpha_(c) \/ c \in DigitSet

upper_char(c) ==
    IF c \in LowerSet
    THEN ch(UpperAlpha, CHOOSE i \in 1..Len(LowerAlpha) : ch(LowerAlpha, i) = c)
    ELSE c

lower_char(c) ==
    IF c \in UpperSet
    THEN ch(LowerAlpha, CHOOSE i \in 1..Len(UpperAlpha) : ch(UpperAlpha, i) = c)
    ELSE c

RECURSIVE str_upper(_)
str_upper(s) == IF s = "" THEN "" ELSE upper_char(ch(s, 1)) \o str_upper(from(s, 2))

RECURSIVE str_lower(_)
str_lower(s) == IF s = "" THEN "" ELSE lower_char(ch(s, 1)) \o str_lower(from(s, 2))

RECURSIVE lstrip(_)
lstrip(s) == IF s # "" /\ ch(s, 1) \in SpaceSet THEN lstrip(from(s, 2)) ELSE s

RECURSIVE rstrip(_)
rstrip(s) ==
    IF s # "" /\ ch(s, Len(s)) \in SpaceSet THEN rstrip(SubSeq(s, 1, Len(s) - 1)) ELSE s

strip(s) == rstrip(lstrip(s))

\* s.find(sub) as a 1-based index, 0 when absent
RECURSIVE str_find(_, _, _)
str_find(s, sub, i) ==
    IF i + Len(sub) - 1 > Len(s) THEN 0
    ELSE IF SubSeq(s, i, i + Len(sub) - 1) = sub THEN i
    ELSE str_find(s, sub, i + 1)

contains(s, sub) == str_find(s, sub, 1) # 0

startswith(s, p) == Len(s) >= Len(p) /\ SubSeq(s, 1, Len(p)) = p

endswith(s, p) == Len(s) >= Len(p) /\ SubSeq(s, Len(s) - Len(p) + 1, Len(s)) = p

\* end of the run of characters of class cls that starts at i (i - 1 when empty)
RECURSIVE run_end(_, _, _)
run_end(s, i, cls) ==
    IF i <= Len(s) /\ ch(s, i) \in cls THEN run_end(s, i + 1, cls) ELSE i - 1

WordSet == LowerSet \cup UpperSet \cup DigitSet \cup {"_"}

\* re.sub(r'\s+', ' ', s)
RECURSIVE collapse_ws(_)
collapse_ws(s) ==
    IF s = "" THEN ""
    ELSE IF ch(s, 1) \in SpaceSet
         THEN " " \o collapse_ws(from(s, run_end(s, 1, SpaceSet) + 1))
         ELSE ch(s, 1) \o collapse_ws(from(s, 2))

normalize_whitespace(value) == IF value = "" THEN "" ELSE strip(collapse_ws(value))

normalize_identifier(value) ==
    IF value = "" THEN ""
    ELSE LET v == normalize_whitespace(value)
             u == IF startswith(v, "\"") /\ endswith(v, "\"")
                  THEN SubSeq(v, 2, Len(v) - 1) ELSE v
         IN  str_upper(u)

safe_str(value) ==
    LET r == strip(collapse_ws(value))
    IN  IF r = "" \/ str_lower(r) = "nan" THEN "" ELSE r

(***************************************************************************)
(* Constant recognition: ORACLE_CONSTANTS / is_constant                     *)
(***************************************************************************)
\* the regex '(?:[^']|'')*' anchored at both ends; j is just after the opening quote
RECURSIVE lit_full(_, _)
lit_full(s, j) ==
    IF j > Len(s) THEN FALSE
    ELSE IF ch(s, j) # "'" THEN lit_full(s, j + 1)
    ELSE (j + 1 <= Len(s) /\ ch(s, j + 1) = "'" /\ lit_full(s, j + 2)) \/ j = Len(s)

\* the same regex as re.sub / re.match find it (greedy, with backtracking):
\* index of the closing quote, 0 when there is none
RECURSIVE lit_end(_, _)
lit_end(s, j) ==
    IF j > Len(s) THEN 0
    ELSE IF ch(s, j) # "'" THEN lit_end(s, j + 1)
    ELSE IF j + 1 <= Len(s) /\ ch(s, j + 1) = "'"
         THEN LET r == lit_end(s, j + 2) IN IF r # 0 THEN r ELSE j
         ELSE j

is_string_literal(s) == startswith(s, "'") /\ lit_full(s, 2)

ident_full(s) ==
    /\ s # ""
    /\ is_alpha_(ch(s, 1))
    /\ run_end(s, 1, WordSet) = Len(s)

\* ^-?[0-9]+(\.[0-9]+)?$
is_numeric(s) ==
    LET b  == IF startswith(s, "-") THEN 2 ELSE 1
        e1 == run_end(s, b, DigitSet)
    IN  /\ e1 >= b
        /\ \/ e1 = Len(s)
           \/ /\ e1 + 2 <= Len(s)
              /\ ch(s, e1 + 1) = "."
              /\ run_end(s, e1 + 2, DigitSet) = Len(s)

\* ^KW\s*\(.+\)$ (ws: whether \s* is in the pattern)
kw_call(s, kw, ws) ==
    LET u == str_upper(s)
        p == Len(kw) + 1
        q == IF ws THEN run_end(s, p, SpaceSet) + 1 ELSE p
    IN  /\ startswith(u, kw)
        /\ q <= Len(s) /\ ch(s, q) = "("
        /\ ch(s, Len(s)) = ")"
        /\ Len(s) - 1 >= q + 1
        /\ ~contains(SubSeq(s, q + 1, Len(s) - 1), "\n")

\* ^KW\s*'...' with or without the end anchor
kw_literal(s, kw, anchored) ==
    LET u == str_upper(s)
        q == run_end(s, Len(kw) + 1, SpaceSet) + 1
    IN  /\ startswith(u, kw)
        /\ q <= Len(s) /\ ch(s, q) = "'"
        /\ IF anchored THEN lit_full(s, q + 1) ELSE lit_end(s, q + 1) # 0

ConstantWords ==
    {"NULL", "SYSDATE", "SYSTIMESTAMP", "CURRENT_DATE", "CURRENT_TIMESTAMP",
     "ROWNUM", "ROWID", "LEVEL", "USER"}

is_constant(value) ==
    LET v == strip(value)
        u == str_upper(v)
    IN  \/ u \in ConstantWords
        \/ /\ startswith(u, "SYS_GUID(")
           /\ run_end(v, 10, SpaceSet) + 1 = Len(v)
           /\ ch(v, Len(v)) = ")"
        \/ kw_call(v, "USERENV", TRUE)
        \/ kw_call(v, "SYS_CONTEXT", TRUE)
        \/ is_string_literal(v)
        \/ (startswith(u, "N'") /\ lit_full(v, 3))
        \/ is_numeric(v)
        \/ kw_literal(v, "DATE", TRUE)
        \/ kw_literal(v, "TIMESTAMP", TRUE)
        \/ kw_literal(v, "INTERVAL", FALSE)
        \/ (startswith(v, "$") /\ ident_full(from(v, 2)))
        \/ (startswith(v, "[") /\ endswith(v, "]") /\ ident_full(SubSeq(v, 2, Len(v) - 1)))
        \/ (startswith(v, ":") /\ ident_full(from(v, 2)))
        \/ kw_call(v, "UNPIVOT_VALUE", FALSE)
        \/ kw_call(v, "UNPIVOT_FOR", FALSE)

\* parse_ref: (alias, column); a missing alias is ""
parse_ref(ref) ==
    LET r == str_upper(normalize_whitespace(ref))
        d == str_find(r, ".", 1)
    IN  IF d # 0
        THEN [alias |-> strip(SubSeq(r, 1, d - 1)), column |-> strip(from(r, d + 1))]
        ELSE [alias |-> "", column |-> strip(r)]

(***************************************************************************)
(* Column-ref extractor                                                     *)
(***************************************************************************)
SqlKeywords == {
    "SELECT", "FROM", "WHERE", "AND", "OR", "NOT", "IN", "IS", "NULL",
    "LIKE", "BETWEEN", "CASE", "WHEN", "THEN", "ELSE", "END", "AS", "ON",
    "JOIN", "LEFT", "RIGHT", "INNER", "OUTER", "FULL", "CROSS", "UNION",
    "ALL", "ORDER", "BY", "GROUP", "HAVING", "DISTINCT", "EXISTS", "ANY",
    "SOME", "TRUE", "FALSE", "WITH", "OVER", "PARTITION", "ROWS", "RANGE",
    "UNBOUNDED", "PRECEDING", "FOLLOWING", "CURRENT", "ROW", "ASC", "DESC",
    "NULLS", "FIRST", "LAST", "FETCH", "NEXT", "ONLY", "OFFSET", "LIMIT",
    "FOR", "UPDATE", "NOWAIT", "SKIP", "LOCKED"}

KnownFunctions == {
    "NVL", "NVL2", "COALESCE", "DECODE", "TRIM", "LTRIM", "RTRIM", "UPPER",
    "LOWER", "INITCAP", "LENGTH", "LENGTHB", "SUBSTR", "SUBSTRB", "INSTR",
    "INSTRB", "REPLACE", "TRANSLATE", "LPAD", "RPAD", "CONCAT", "ASCII",
    "CHR", "SOUNDEX", "REGEXP_REPLACE", "REGEXP_SUBSTR", "REGEXP_INSTR",
    "REGEXP_LIKE", "REGEXP_COUNT", "TO_CHAR", "TO_DATE", "TO_NUMBER",
    "TO_TIMESTAMP", "TO_CLOB", "TO_LOB", "CAST", "CONVERT", "HEXTORAW",
    "RAWTOHEX", "CHARTOROWID", "ROWIDTOCHAR", "ROUND", "TRUNC", "ABS",
    "CEIL", "FLOOR", "MOD", "POWER", "SQRT", "SIGN", "GREATEST", "LEAST",
    "NULLIF", "EXP", "LN", "LOG", "SIN", "COS", "TAN", "ASIN", "ACOS",
    "ATAN", "SINH", "COSH", "TANH", "BITAND", "WIDTH_BUCKET", "ADD_MONTHS",
    "MONTHS_BETWEEN", "NEXT_DAY", "LAST_DAY", "EXTRACT", "SYSDATE",
    "SYSTIMESTAMP", "CURRENT_DATE", "CURRENT_TIMESTAMP", "LOCALTIMESTAMP",
    "DBTIMEZONE", "SESSIONTIMEZONE", "NEW_TIME", "NUMTODSINTERVAL",
    "NUMTOYMINTERVAL", "TO_DSINTERVAL", "TO_YMINTERVAL", "TZ_OFFSET",
    "FROM_TZ", "SYS_EXTRACT_UTC", "COUNT", "SUM", "AVG", "MIN", "MAX",
    "STDDEV", "VARIANCE", "LISTAGG", "MEDIAN", "STATS_MODE",
    "PERCENTILE_CONT", "PERCENTILE_DISC", "CORR", "COVAR_POP", "COVAR_SAMP",
    "REGR_SLOPE", "REGR_INTERCEPT", "CUME_DIST", "PERCENT_RANK", "NTILE",
    "ROW_NUMBER", "RANK", "DENSE_RANK", "LEAD", "LAG", "FIRST_VALUE",
    "LAST_VALUE", "NTH_VALUE", "RATIO_TO_REPORT", "ROWNUM", "ROWID", "LEVEL",
    "USER", "UID", "SYS_GUID", "USERENV", "SYS_CONTEXT", "DUMP", "VSIZE",
    "ORA_HASH", "EMPTY_BLOB", "EMPTY_CLOB", "BFILENAME", "XMLELEMENT",
    "XMLFOREST", "XMLAGG", "XMLROOT", "XMLPARSE", "XMLSERIALIZE"}

int_str(n) == IF n < 10 THEN ch(DigitChars, n + 1)
              ELSE ch(DigitChars, (n \div 10) + 1) \o ch(DigitChars, (n % 10) + 1)

\* re.sub(r"'(?:[^']|'')*'", save_literal, expr) with save_literal -> pre<n>__
RECURSIVE protect_literals(_, _, _)
protect_literals(s, n, pre) ==
    IF s = "" THEN ""
    ELSE IF ch(s, 1) = "'" /\ lit_end(s, 2) # 0
         THEN pre \o int_str(n) \o "__" \o protect_literals(from(s, lit_end(s, 2) + 1), n + 1, pre)
         ELSE ch(s, 1) \o protect_literals(from(s, 2), n, pre)

\* re.sub(r'\s*\.\s*', '.', s)
RECURSIVE tighten_dots(_)
tighten_dots(s) ==
    IF s = "" THEN ""
    ELSE LET e == run_end(s, 1, SpaceSet)
         IN  IF e + 1 <= Len(s) /\ ch(s, e + 1) = "."
             THEN "." \o tighten_dots(from(s, run_end(s, e + 2, SpaceSet) + 1))
             ELSE ch(s, 1) \o tighten_dots(from(s, 2))

\* re.finditer(r'\b([A-Z_][A-Z0-9_]*(?:\.[A-Z_][A-Z0-9_]*)?)\b', s, IGNORECASE)
RECURSIVE ref_tokens(_, _)
ref_tokens(s, i) ==
    IF i > Len(s) THEN <<>>
    ELSE IF is_alpha_(ch(s, i)) /\ (i = 1 \/ ~is_word(ch(s, i - 1)))
         THEN LET e1 == run_end(s, i, WordSet)
                  e  == IF e1 + 2 <= Len(s) /\ ch(s, e1 + 1) = "." /\ is_alpha_(ch(s, e1 + 2))
                        THEN run_end(s, e1 + 2, WordSet) ELSE e1
              IN  <<SubSeq(s, i, e)>> \o ref_tokens(s, e + 1)
         ELSE ref_tokens(s, i + 1)

keep_token(token) ==
    /\ token \notin SqlKeywords
    /\ ~(~contains(token, ".") /\ token \in KnownFunctions)
    /\ ~startswith(token, "__LIT")
    /\ ~call("is_constant", <<token>>)

extract_column_refs(expr) ==
    LET protected == strip(collapse_ws(tighten_dots(protect_literals(expr, 0, "__LIT"))))
        toks == ref_tokens(protected, 1)
        ups  == [i \in 1..Len(toks) |-> str_upper(toks[i])]
    IN  SelectSeq(ups, keep_token)

\* normalize_expression: upper-case everything but the string literals
RECURSIVE restore_literals(_, _, _)
restore_literals(p, lits, i) ==
    IF i > Len(lits) THEN p
    ELSE LET key == "__LITERAL_" \o int_str(i - 1) \o "__"
             RECURSIVE repl(_)
             repl(t) == LET k == str_find(t, key, 1)
                        IN  IF k = 0 THEN t
                            ELSE SubSeq(t, 1, k - 1) \o lits[i] \o repl(from(t, k + Len(key)))
         IN  restore_literals(repl(p), lits, i + 1)

RECURSIVE literals_of(_)
literals_of(s) ==
    IF s = "" THEN <<>>
    ELSE IF ch(s, 1) = "'" /\ lit_end(s, 2) # 0
         THEN <<SubSeq(s, 1, lit_end(s, 2))>> \o literals_of(from(s, lit_end(s, 2) + 1))
         ELSE literals_of(from(s, 2))

normalize_expression(expr) ==
    IF expr = "" THEN ""
    ELSE LET protected == str_upper(strip(collapse_ws(protect_literals(expr, 0, "__LITERAL_"))))
         IN  restore_literals(protected, literals_of(expr), 1)

(***************************************************************************)
(* Data model dictionary                                                    *)
(***************************************************************************)
\* dm_df rows are <<Table Physical Name, Column Physical Name>> as written
RECURSIVE build_dm_dictionary(_)
build_dm_dictionary(rows) ==
    IF rows = <<>> THEN <<>>
    ELSE LET d      == build_dm_dictionary(SubSeq(rows, 1, Len(rows) - 1))
             row    == rows[Len(rows)]
             table  == call("normalize_identifier", <<safe_str(row[1])>>)
             column == call("normalize_identifier", <<safe_str(row[2])>>)
         IN  IF table # "" /\ column # ""
             THEN IF table \in DOMAIN d
                  THEN [d EXCEPT ![table] = @ \cup {column}]
                  ELSE d @@ (table :> {column})
             ELSE d

\* a dm_dict value: none is Python's None, d the dict
DmDict(d) == [none |-> FALSE, d |-> d]

dm_get(dm, table) == IF table \in DOMAIN dm.d THEN dm.d[table] ELSE {}

\* a lookup that finds every column
column_exists_always(table, column, dm) == TRUE

\* the table is known to the data model, whatever the column
table_exists_in_dm(table, column, dm) ==
    IF dm.none THEN FALSE
    ELSE str_upper(table) \in DOMAIN dm.d

column_exists_in_dm(table, column, dm) ==
    IF dm.none THEN FALSE
    ELSE str_upper(column) \in dm_get(dm, str_upper(table))

\* "if dm_dict and table_name in dm_dict": an empty dict is falsy
dm_has_table(dm, table) == ~dm.none /\ table \in DOMAIN dm.d

(***************************************************************************)
(* Scope graph: a sequence of Scope objects; a Scope reference is its index *)
(* (object identity), None is 0.  Python dicts keep insertion order: a dict *)
(* is a sequence of entries with distinct keys.                             *)
(***************************************************************************)
None == 0

Scope(name, parent) ==
    [name |-> name, parent |-> parent, relations |-> <<>>, projections |-> <<>>,
     ctes |-> <<>>, union_branches |-> <<>>, joins |-> <<>>]

ProjectionDef(key, output_name, expression, source_refs, origin_alias) ==
    [key |-> key, output_name |-> output_name, expression |-> expression,
     source_refs |-> source_refs, origin_alias |-> origin_alias]

RelTable(alias, tbl) == [key |-> alias, kind |-> "str", tbl |-> tbl, sid |-> None]

RelScope(alias, sid) == [key |-> alias, kind |-> "Scope", tbl |-> "", sid |-> sid]

dict_has(d, k) == \E i \in 1..Len(d) : d[i].key = k

dict_idx(d, k) == CHOOSE i \in 1..Len(d) : d[i].key = k

dict_get(d, k) == d[dict_idx(d, k)]

dict_put(d, e) ==
    IF dict_has(d, e.key) THEN [d EXCEPT ![dict_idx(d, e.key)] = e] ELSE Append(d, e)

(***************************************************************************)
(* Parsed statement (sqlglot nodes)                                         *)
(***************************************************************************)
Table(name, alias) == [t |-> "Table", name |-> name, alias |-> alias]

\* exp.In of an UNPIVOT: this is the FOR column
In(this) == [t |-> "In", this |-> this]

\* exp.Pivot: expressions are the value columns, fields the FOR ... IN parts
Pivot(unpivot, expressions, fields) ==
    [t |-> "Pivot", unpivot |-> unpivot, expressions |-> expressions, fields |-> fields]

\* exp.Table followed by PIVOT / UNPIVOT operators
PivotTable(name, alias, pivots) ==
    [t |-> "Table", name |-> name, alias |-> alias, pivots |-> pivots]

Subquery(this, alias) == [t |-> "Subquery", this |-> this, alias |-> alias]

NoFrom == [t |-> "NoFrom"]

\* on: the condition of the ON clause, NoOn when there is none
Join(this, side, kind, on) ==
    [t |-> "Join", this |-> this, side |-> side, kind |-> kind, on |-> on]

NoOn == [t |-> "None"]

EQ(left, right) ==
    [t |-> "EQ", left |-> left, right |-> right, sql |-> left.sql \o " = " \o right.sql]

\* a predicate of one of the filter_expression_types other than Or (BETWEEN,
\* IN, IS, <, >, <=, >=, !=, LIKE), with operands that hold no predicate
Predicate(sql) == [t |-> "Predicate", sql |-> sql]

And(left, right) ==
    [t |-> "And", left |-> left, right |-> right, sql |-> left.sql \o " AND " \o right.sql]

Or(left, right) ==
    [t |-> "Or", left |-> left, right |-> right, sql |-> left.sql \o " OR " \o right.sql]

Paren(this) == [t |-> "Paren", this |-> this, sql |-> "(" \o this.sql \o ")"]

CTE(alias, this) == [t |-> "CTE", alias |-> alias, this |-> this]

Select(ctes, items, from_clause, joins) ==
    [t |-> "Select", ctes |-> ctes, expressions |-> items,
     from_clause |-> from_clause, joins |-> joins]

Union(left, right) == [t |-> "Union", left |-> left, right |-> right]

Star == [t |-> "Star"]

TableStar(table) == [t |-> "ColumnStar", table |-> table]

\* SELECT items: sql is the Oracle text sqlglot generates for the expression
Alias(sql, alias) == [t |-> "Alias", alias |-> alias, name |-> "", sql |-> sql]

Column(table, name) ==
    [t |-> "Column", alias |-> "", name |-> name, table |-> table,
     sql |-> IF table = "" THEN name ELSE table \o "." \o name]

Expr(sql) == [t |-> "Expr", alias |-> "", name |-> "", sql |-> sql]

\* ast.find_all(exp.CTE): the WITH entries of the node, then those below it
RECURSIVE find_all_cte(_)
find_all_cte(ast) ==
    IF ast.t = "Select"
    THEN LET RECURSIVE below(_, _)
             below(cs, i) == IF i > Len(cs) THEN <<>>
                             ELSE find_all_cte(cs[i].this) \o below(cs, i + 1)
             src(s) == IF s.t = "Subquery" THEN find_all_cte(s.this) ELSE <<>>
             RECURSIVE injoins(_, _)
             injoins(js, i) == IF i > Len(js) THEN <<>>
                               ELSE src(js[i].this) \o injoins(js, i + 1)
         IN  ast.ctes \o below(ast.ctes, 1) \o src(ast.from_clause) \o injoins(ast.joins, 1)
    ELSE IF ast.t = "Union" THEN find_all_cte(ast.left) \o find_all_cte(ast.right)
    ELSE <<>>

\* select_expr.find_all(exp.Join) with no exp.Subquery in between: the
\* node's own JOINs, then the JOINs of its WITH bodies (a CTE body is not
\* wrapped in a Subquery node)
RECURSIVE find_all_join(_)
find_all_join(ast) ==
    IF ast.t = "Select"
    THEN LET RECURSIVE below(_, _)
             below(cs, i) == IF i > Len(cs) THEN <<>>
                             ELSE find_all_join(cs[i].this) \o below(cs, i + 1)
         IN  ast.joins \o below(ast.ctes, 1)
    ELSE IF ast.t = "Union" THEN find_all_join(ast.left) \o find_all_join(ast.right)
    ELSE <<>>

_get_projection_alias(item) ==
    IF item.t = "Alias" THEN item.alias
    ELSE IF item.alias # "" THEN item.alias
    ELSE IF item.t = "Column" THEN item.name
    ELSE SubSeq(item.sql, 1, IF Len(item.sql) < 30 THEN Len(item.sql) ELSE 30)

(***************************************************************************)
(* Scope builder.  G is the graph built so far; every operator returns the  *)
(* graph after the Python function has run.                                 *)
(***************************************************************************)
RECURSIVE _find_scope_by_alias(_, _, _)
_find_scope_by_alias(sid, alias, G) ==
    LET rels == G[sid].relations
        RECURSIVE nested(_)
        nested(i) ==
            IF i > Len(rels) THEN None
            ELSE IF rels[i].kind = "Scope"
                    /\ _find_scope_by_alias(rels[i].sid, alias, G) # None
                 THEN _find_scope_by_alias(rels[i].sid, alias, G)
                 ELSE nested(i + 1)
    IN  IF dict_has(rels, alias)
        THEN IF dict_get(rels, alias).kind = "Scope" THEN dict_get(rels, alias).sid
             ELSE None
        ELSE nested(1)

\* a chain walk that takes a name registered in PASS 1 and not yet built for
\* the scope built last
RECURSIVE _find_cte_or_placeholder(_, _, _)
_find_cte_or_placeholder(cte_name, sid, G) ==
    IF sid = None THEN None
    ELSE IF dict_has(G[sid].ctes, cte_name)
         THEN IF dict_get(G[sid].ctes, cte_name).sid # None
              THEN dict_get(G[sid].ctes, cte_name).sid
              ELSE Len(G)
         ELSE _find_cte_or_placeholder(cte_name, G[sid].parent, G)

RECURSIVE _find_cte_in_scope_chain(_, _, _)
_find_cte_in_scope_chain(cte_name, sid, G) ==
    IF sid = None THEN None
    ELSE IF dict_has(G[sid].ctes, cte_name) /\ dict_get(G[sid].ctes, cte_name).sid # None
         THEN dict_get(G[sid].ctes, cte_name).sid
         ELSE _find_cte_in_scope_chain(cte_name, G[sid].parent, G)

\* copy of a relation Scope's projections into scope sid (SELECT * / alias.*)
RECURSIVE copy_projections(_, _, _, _, _)
copy_projections(projs, i, alias, sid, G) ==
    IF i > Len(projs) THEN G
    ELSE LET p == projs[i]
             q == ProjectionDef(str_upper(p.key), p.key, p.expression,
                                IF p.source_refs # <<>> THEN p.source_refs
                                ELSE <<p.expression>>,
                                alias)
         IN  copy_projections(projs, i + 1, alias, sid,
                              [G EXCEPT ![sid].projections = dict_put(@, q)])

\* "for col_name in dm_dict[table_name]": cols is the set in iteration order
RECURSIVE expand_dm_columns(_, _, _, _, _)
expand_dm_columns(cols, i, alias, sid, G) ==
    IF i > Len(cols) THEN G
    ELSE LET qualified_expr == alias \o "." \o cols[i]
             q == ProjectionDef(str_upper(cols[i]), cols[i], qualified_expr,
                                <<qualified_expr>>, "")
         IN  expand_dm_columns(cols, i + 1, alias, sid,
                               [G EXCEPT ![sid].projections = dict_put(@, q)])

star_placeholder(alias, sid, G) ==
    [G EXCEPT ![sid].projections =
        dict_put(@, ProjectionDef("*_" \o alias, "*", alias \o ".*",
                                  <<alias \o ".*">>, ""))]

\* the body shared by the two expansions, for one relation
expand_relation(rel, alias, sid, dm, order, G) ==
    IF rel.kind = "Scope"
    THEN copy_projections(G[rel.sid].projections, 1, alias, sid, G)
    ELSE LET table_name == str_upper(rel.tbl)
         IN  IF dm_has_table(dm, table_name)
             THEN expand_dm_columns(order[table_name], 1, alias, sid, G)
             ELSE star_placeholder(alias, sid, G)

_expand_star_projection(sid, dm, order, G) ==
    LET rels == G[sid].relations      \* the dict iterated; relations is not modified
        RECURSIVE each(_, _)
        each(i, g) == IF i > Len(rels) THEN g
                      ELSE each(i + 1, expand_relation(rels[i], rels[i].key, sid, dm, order, g))
    IN  each(1, G)

_expand_qualified_star(sid, alias, dm, order, G) ==
    IF dict_has(G[sid].relations, alias)
    THEN expand_relation(dict_get(G[sid].relations, alias), alias, sid, dm, order, G)
    ELSE IF _find_scope_by_alias(sid, alias, G) = None THEN G
    ELSE expand_relation(RelScope(alias, _find_scope_by_alias(sid, alias, G)),
                         alias, sid, dm, order, G)

\* FIX 21: qualify an unqualified ref with the branch's source
_qualify_column_ref(col_ref0, branch, G) ==
    LET col_ref == strip(col_ref0)
        rels == G[branch].relations
        RECURSIVE scan(_)
        scan(i) ==
            IF i > Len(rels) THEN col_ref
            ELSE IF rels[i].kind = "str" THEN rels[i].tbl \o "." \o col_ref
            ELSE IF dict_has(G[rels[i].sid].projections, str_upper(col_ref))
                 THEN rels[i].key \o "." \o col_ref
                 ELSE scan(i + 1)
    IN  IF \E i \in 1..Len(col_ref) : ch(col_ref, i) \in {" ", "(", ")", "\n", "\r", "\t"}
        THEN col_ref
        ELSE IF contains(col_ref, ".") THEN col_ref
        ELSE scan(1)

\* "if qualified not in combined_sources: combined_sources.append(qualified)"
RECURSIVE add_sources(_, _, _, _, _)
add_sources(srcs, i, branch, combined, G) ==
    IF i > Len(srcs) THEN combined
    ELSE LET qualified == _qualify_column_ref(srcs[i], branch, G)
         IN  add_sources(srcs, i + 1, branch,
                         IF \E k \in 1..Len(combined) : combined[k] = qualified
                         THEN combined ELSE Append(combined, qualified), G)

sources_of(proj) ==
    IF proj.source_refs # <<>> THEN proj.source_refs ELSE <<proj.expression>>

\* FIX 20: merge UNION branch projections by position
_merge_union_projections(sid, G) ==
    LET branches == G[sid].union_branches
        first == branches[1]
        first_items == G[first].projections
        RECURSIVE others(_, _, _)
        others(b, idx, combined) ==
            IF b > Len(branches) THEN combined
            ELSE LET branch_items == G[branches[b]].projections
                 IN  others(b + 1, idx,
                            IF idx <= Len(branch_items)
                            THEN add_sources(sources_of(branch_items[idx]), 1,
                                             branches[b], combined, G)
                            ELSE combined)
        merged_at(idx) ==
            LET base_proj == first_items[idx]
                col_name == base_proj.key
            IN  ProjectionDef(str_upper(col_name), col_name, base_proj.expression,
                              others(2, idx, add_sources(sources_of(base_proj), 1,
                                                         first, <<>>, G)),
                              base_proj.origin_alias)
    IN  IF branches = <<>> THEN G
        ELSE [G EXCEPT ![sid].projections =
                 [idx \in 1..Len(first_items) |-> merged_at(idx)]]

\* FIX 17A: branch aliases become visible at the union scope, first wins
union_visible_relations(sid, G) ==
    LET branches == G[sid].union_branches
        RECURSIVE rels_of(_, _, _)
        rels_of(rs, i, acc) ==
            IF i > Len(rs) THEN acc
            ELSE rels_of(rs, i + 1,
                         IF dict_has(acc, rs[i].key) THEN acc ELSE Append(acc, rs[i]))
        RECURSIVE each(_, _)
        each(b, acc) == IF b > Len(branches) THEN acc
                        ELSE each(b + 1, rels_of(G[branches[b]].relations, 1, acc))
    IN  [G EXCEPT ![sid].relations = each(1, @)]

_get_join_type(join) ==
    IF join.side # "" THEN str_upper(join.side) \o " JOIN"
    ELSE IF join.kind # "" THEN str_upper(join.kind) \o " JOIN"
    ELSE "INNER JOIN"

\* None is ""
_extract_column_from_expr(expr) ==
    IF expr.t = "Column"
    THEN IF expr.table # "" THEN expr.table \o "." \o expr.name ELSE expr.name
    ELSE ""

RECURSIVE join_strs(_, _)
join_strs(xs, sep) ==
    IF xs = <<>> THEN ""
    ELSE IF Len(xs) = 1 THEN xs[1]
    ELSE xs[1] \o sep \o join_strs(Tail(xs), sep)

\* the child nodes of a condition node, in the order of its args
iter_expressions(n) ==
    IF n.t \in {"And", "Or", "EQ"} THEN <<n.left, n.right>>
    ELSE IF n.t = "Paren" THEN <<n.this>>
    ELSE <<>>

\* condition.find_all(...): the nodes in breadth-first order, each with
\* whether an Or lies between it and the condition ("while parent and parent
\* != condition: if isinstance(parent, exp.Or)")
RECURSIVE walk(_)
walk(queue) ==
    IF queue = <<>> THEN <<>>
    ELSE LET n == Head(queue)
             below == n.nested \/ (n.node.t = "Or" /\ ~n.top)
             kids == iter_expressions(n.node)
         IN  <<n>> \o walk(Tail(queue) \o
                            [i \in 1..Len(kids) |->
                                [node |-> kids[i], nested |-> below, top |-> FALSE]])

\* returns [join_keys, join_filters]
_parse_join_condition(condition) ==
    LET nodes == walk(<<[node |-> condition, nested |-> FALSE, top |-> TRUE]>>)
        is_key(c) == /\ _extract_column_from_expr(c.left) # ""
                     /\ _extract_column_from_expr(c.right) # ""
        key_of(c) ==
            LET left_col == _extract_column_from_expr(c.left)
                right_col == _extract_column_from_expr(c.right)
            IN  [left_table |-> str_upper(call("parse_ref", <<left_col>>).alias),
                 left_field |-> call("parse_ref", <<left_col>>).column,
                 right_table |-> str_upper(call("parse_ref", <<right_col>>).alias),
                 right_field |-> call("parse_ref", <<right_col>>).column,
                 condition |-> left_col \o " = " \o right_col]
        eqs == SelectSeq(nodes, LAMBDA n : n.node.t = "EQ")
        keys == SelectSeq(eqs, LAMBDA n : is_key(n.node))
        eq_filters == SelectSeq(eqs, LAMBDA n : ~is_key(n.node))
        preds == SelectSeq(nodes, LAMBDA n : n.node.t \in {"Predicate", "Or"} /\ ~n.nested)
        RECURSIVE add(_, _, _)
        add(cs, i, acc) ==
            IF i > Len(cs) THEN acc
            ELSE add(cs, i + 1,
                     IF \E k \in 1..Len(acc) : acc[k] = cs[i].node.sql
                     THEN acc ELSE Append(acc, cs[i].node.sql))
    IN  [join_keys |-> [i \in 1..Len(keys) |-> key_of(keys[i].node)],
         join_filters |-> add(preds, 1, [i \in 1..Len(eq_filters) |-> eq_filters[i].node.sql])]

\* the JoinKeys of the node's own JOINs (object_name = "", sql_file = "")
_extract_scope_joins(select_expr, scope_name) ==
    LET js == select_expr.joins
        of_join(seq) ==
            LET parsed == call("_parse_join_condition", <<js[seq].on>>)
            IN  [k \in 1..Len(parsed.join_keys) |->
                    [sql_file |-> "", join_seq |-> seq,
                     join_type |-> _get_join_type(js[seq]),
                     left_table |-> parsed.join_keys[k].left_table,
                     left_field |-> parsed.join_keys[k].left_field,
                     right_table |-> parsed.join_keys[k].right_table,
                     right_field |-> parsed.join_keys[k].right_field,
                     join_condition |-> parsed.join_keys[k].condition,
                     join_filters |-> join_strs(parsed.join_filters, "; "),
                     context_path |-> scope_name]]
        RECURSIVE each(_)
        each(seq) == IF seq > Len(js) THEN <<>>
                     ELSE (IF js[seq].on # NoOn THEN of_join(seq) ELSE <<>>) \o each(seq + 1)
    IN  each(1)

RECURSIVE build_scope_tree(_, _, _, _, _, _)
RECURSIVE build_ctes(_, _, _, _, _, _, _)
RECURSIVE register_joins(_, _, _, _, _, _, _)
RECURSIVE _register_from_sources(_, _, _, _, _, _)
RECURSIVE _register_join_source(_, _, _, _, _, _)

\* a Table source: a built CTE of the scope chain, else a physical table
register_table(source, sid, G) ==
    LET table_name == str_upper(source.name)
        alias == IF source.alias # "" THEN source.alias ELSE source.name
        cte_scope == _find_cte_in_scope_chain(table_name, sid, G)
    IN  IF alias = "" THEN G
        ELSE [G EXCEPT ![sid].relations =
                 dict_put(@, IF cte_scope # None THEN RelScope(str_upper(alias), cte_scope)
                             ELSE RelTable(str_upper(alias), table_name))]

_register_from_sources(source, sid, name, dm, order, G) ==
    IF source.t = "Table" THEN register_table(source, sid, G)
    ELSE IF source.t = "Subquery"
    THEN LET key == IF source.alias # "" THEN str_upper(source.alias) ELSE "__ANON__"
             child == call("build_scope_tree", <<source.this, name \o "/" \o key, sid, dm, order, G>>)
         IN  [child.g EXCEPT ![sid].relations = dict_put(@, RelScope(key, child.id))]
    ELSE G

\* an unaliased parenthesized join (_register_parenthesized_join_tables) is
\* outside the statements modelled
_register_join_source(join, sid, name, dm, order, G) ==
    LET source == join.this
    IN  IF source.t = "Table" THEN register_table(source, sid, G)
        ELSE IF source.t = "Subquery" /\ source.alias # ""
        THEN LET child == call("build_scope_tree", <<source.this, name \o "/" \o str_upper(source.alias),
                                           sid, dm, order, G>>)
             IN  [child.g EXCEPT ![sid].relations =
                     dict_put(@, RelScope(str_upper(source.alias), child.id))]
        ELSE G

register_joins(js, i, sid, name, dm, order, G) ==
    IF i > Len(js) THEN G
    ELSE register_joins(js, i + 1, sid, name, dm, order,
                        _register_join_source(js[i], sid, name, dm, order, G))

\* PASS 1 of the CTE handling: placeholders
RECURSIVE register_cte_names(_, _, _, _)
register_cte_names(cte_nodes, i, sid, G) ==
    IF i > Len(cte_nodes) THEN G
    ELSE LET cte_name == str_upper(cte_nodes[i].alias)
         IN  register_cte_names(cte_nodes, i + 1, sid,
                 IF cte_name # ""
                 THEN [G EXCEPT ![sid].ctes = dict_put(@, [key |-> cte_name, sid |-> None])]
                 ELSE G)

\* PASS 2 of the CTE handling: build the bodies
build_ctes(cte_nodes, i, name, sid, dm, order, G) ==
    IF i > Len(cte_nodes) THEN G
    ELSE LET cte_name == str_upper(cte_nodes[i].alias)
             cte_scope == call("build_scope_tree", <<cte_nodes[i].this, name \o "/CTE_" \o cte_name,
                                           sid, dm, order, G>>)
         IN  build_ctes(cte_nodes, i + 1, name, sid, dm, order,
                 IF cte_name # ""
                 THEN [cte_scope.g EXCEPT ![sid].ctes =
                          dict_put(@, [key |-> cte_name, sid |-> cte_scope.id])]
                 ELSE G)

\* PASS 3: the SELECT list
RECURSIVE register_projections(_, _, _, _, _, _)
register_projections(items, i, sid, dm, order, G) ==
    IF i > Len(items) THEN G
    ELSE LET item == items[i]
             alias == str_upper(item.table)
             output_name == _get_projection_alias(item)
             expr_sql == item.sql
             refs == call("extract_column_refs", <<expr_sql>>)
             origin_alias == IF Len(refs) = 1 THEN call("parse_ref", <<refs[1]>>).alias ELSE ""
             Gn == IF item.t = "Star" THEN _expand_star_projection(sid, dm, order, G)
                   ELSE IF item.t = "ColumnStar"
                   THEN IF alias # "" /\ (dict_has(G[sid].relations, alias)
                                          \/ _find_scope_by_alias(sid, alias, G) # None)
                        THEN _expand_qualified_star(sid, alias, dm, order, G)
                        ELSE G
                   ELSE IF output_name # ""
                   THEN [G EXCEPT ![sid].projections =
                            dict_put(@, ProjectionDef(str_upper(output_name), output_name,
                                                      expr_sql, refs, origin_alias))]
                   ELSE G
         IN  register_projections(items, i + 1, sid, dm, order, Gn)

\* select_expr.find_all(exp.Pivot): the Pivot nodes of the sources of the
\* SELECT, then those of the subqueries and CTE bodies below it
RECURSIVE find_all_pivot(_)
find_all_pivot(ast) ==
    IF ast.t = "Select"
    THEN LET own(s) == IF s.t = "Table" /\ "pivots" \in DOMAIN s THEN s.pivots ELSE <<>>
             sub(s) == IF s.t = "Subquery" THEN find_all_pivot(s.this) ELSE <<>>
             RECURSIVE ownjoins(_, _), subjoins(_, _), below(_, _)
             ownjoins(js, i) == IF i > Len(js) THEN <<>>
                                ELSE own(js[i].this) \o ownjoins(js, i + 1)
             subjoins(js, i) == IF i > Len(js) THEN <<>>
                                ELSE sub(js[i].this) \o subjoins(js, i + 1)
             below(cs, i) == IF i > Len(cs) THEN <<>>
                             ELSE find_all_pivot(cs[i].this) \o below(cs, i + 1)
         IN  own(ast.from_clause) \o ownjoins(ast.joins, 1) \o below(ast.ctes, 1)
             \o sub(ast.from_clause) \o subjoins(ast.joins, 1)
    ELSE IF ast.t = "Union" THEN find_all_pivot(ast.left) \o find_all_pivot(ast.right)
    ELSE <<>>

\* the synthetic projections of the columns of one list, with a marker
RECURSIVE register_markers(_, _, _, _, _)
register_markers(cols, i, marker, sid, G) ==
    IF i > Len(cols) THEN G
    ELSE LET col_name == str_upper(cols[i].name)
             q == ProjectionDef(col_name, col_name, marker \o "(" \o col_name \o ")",
                                <<>>, "")
         IN  register_markers(cols, i + 1, marker, sid,
                 IF cols[i].t = "Column" /\ col_name # ""
                 THEN [G EXCEPT ![sid].projections = dict_put(@, q)]
                 ELSE G)

\* PASS 2b: the value columns and the FOR column of every UNPIVOT
_register_unpivot_columns(select_expr, sid, G) ==
    LET pivots == find_all_pivot(select_expr)
        for_cols(p) == [k \in 1..Len(p.fields) |-> p.fields[k].this]
        RECURSIVE each(_, _)
        each(i, g) ==
            IF i > Len(pivots) THEN g
            ELSE IF ~pivots[i].unpivot THEN each(i + 1, g)
            ELSE each(i + 1,
                      register_markers(for_cols(pivots[i]), 1, "UNPIVOT_FOR", sid,
                          register_markers(pivots[i].expressions, 1, "UNPIVOT_VALUE",
                                           sid, g)))
    IN  each(1, G)

\* returns [g |-> the graph, id |-> the new Scope]
build_scope_tree(ast, name, parent, dm, order, G) ==
    LET sid == Len(G) + 1
        G0 == Append(G, Scope(name, parent))
        cte_nodes == find_all_cte(ast)
        G1 == IF ast.t = "Select"
              THEN build_ctes(cte_nodes, 1, name, sid, dm, order,
                              register_cte_names(cte_nodes, 1, sid, G0))
              ELSE G0
    IN  IF ast.t = "Union"
        THEN LET L  == build_scope_tree(ast.left, name \o "__UNION1", sid, dm, order, G1)
                 GL == [L.g EXCEPT ![sid].union_branches = Append(@, L.id)]
                 R  == build_scope_tree(ast.right, name \o "__UNION2", sid, dm, order, GL)
                 GR == [R.g EXCEPT ![sid].union_branches = Append(@, R.id)]
             IN  [g |-> union_visible_relations(sid, call("_merge_union_projections", <<sid, GR>>)),
                  id |-> sid]
        ELSE IF ast.t # "Select" THEN [g |-> G1, id |-> sid]
        ELSE LET G2 == call("_register_from_sources", <<ast.from_clause, sid, name, dm, order, G1>>)
                 G3 == register_joins(find_all_join(ast), 1, sid, name, dm, order, G2)
                 G3b == _register_unpivot_columns(ast, sid, G3)
                 G4 == [G3b EXCEPT ![sid].joins = call("_extract_scope_joins", <<ast, name>>)]
                 G5 == call("register_projections", <<ast.expressions, 1, sid, dm, order, G4>>)
             IN  [g |-> G5, id |-> sid]

(***************************************************************************)
(* Resolver                                                                 *)
(***************************************************************************)
ResolvedColumn(source_type, table, column, constant_value, trace_path, reason,
               dm_match, source_alias, original_ref) ==
    [source_type |-> source_type, table |-> table, column |-> column,
     constant_value |-> constant_value, trace_path |-> trace_path,
     reason |-> reason, dm_match |-> dm_match, source_alias |-> source_alias,
     original_ref |-> original_ref, full_expression |-> ""]

\* reason is the UnresolvedReason value; the " | DEBUG: ..." text that
\* _generate_debug_info appends to it is left out
Unresolved(reason, trace, column) ==
    ResolvedColumn("UNRESOLVED", "", column, "", join_strs(trace, "->"), reason,
                   "N", "", "")

Physical(table, column, dm, trace, source_alias, original_ref) ==
    ResolvedColumn("PHYSICAL", table, column, "",
                   join_strs(trace, "->") \o ":" \o table \o "." \o column, "",
                   IF column_exists_in_dm(table, column, dm) THEN "Y" ELSE "N",
                   source_alias, original_ref)

Constant(value, trace) ==
    ResolvedColumn("CONSTANT", "", "", value,
                   join_strs(trace, "->") \o ":CONSTANT(" \o value \o ")", "",
                   "N", "", "")

NoRelation == [key |-> "", kind |-> "None", tbl |-> "", sid |-> None]

\* find_physical_in_nested: "" is None
RECURSIVE find_physical_in_nested(_, _, _)
find_physical_in_nested(s, tbl_alias, G) ==
    LET rels == G[s].relations
        RECURSIVE scan(_)
        scan(i) ==
            IF i > Len(rels) THEN ""
            ELSE IF rels[i].key = tbl_alias /\ rels[i].kind = "str" THEN rels[i].tbl
            ELSE IF rels[i].kind = "Scope"
                    /\ find_physical_in_nested(rels[i].sid, tbl_alias, G) # ""
                 THEN find_physical_in_nested(rels[i].sid, tbl_alias, G)
                 ELSE scan(i + 1)
    IN  scan(1)

cte_relation(e) == IF e.sid = None THEN NoRelation ELSE RelScope(e.key, e.sid)

RECURSIVE find_relation_in_scope_chain(_, _, _)
find_relation_in_scope_chain(alias0, sid, G) ==
    LET alias == str_upper(alias0)
        scope == G[sid]
        branches == scope.union_branches
        in_branch(b) ==
            IF dict_has(G[b].relations, alias) THEN dict_get(G[b].relations, alias)
            ELSE IF dict_has(G[b].ctes, alias) THEN cte_relation(dict_get(G[b].ctes, alias))
            ELSE IF _find_scope_by_alias(b, alias, G) # None
                 THEN RelScope(alias, _find_scope_by_alias(b, alias, G))
            ELSE IF find_physical_in_nested(b, alias, G) # ""
                 THEN RelTable(alias, find_physical_in_nested(b, alias, G))
            ELSE NoRelation
        returns(b) ==
            dict_has(G[b].relations, alias) \/ dict_has(G[b].ctes, alias)
            \/ in_branch(b).kind # "None"
        RECURSIVE in_branches(_)
        in_branches(i) ==
            IF i > Len(branches) THEN [hit |-> FALSE, rel |-> NoRelation]
            ELSE IF returns(branches[i]) THEN [hit |-> TRUE, rel |-> in_branch(branches[i])]
            ELSE in_branches(i + 1)
    IN  IF dict_has(scope.relations, alias) THEN dict_get(scope.relations, alias)
        ELSE IF dict_has(scope.ctes, alias) THEN cte_relation(dict_get(scope.ctes, alias))
        ELSE IF _find_scope_by_alias(sid, alias, G) # None
             THEN RelScope(alias, _find_scope_by_alias(sid, alias, G))
        ELSE IF find_physical_in_nested(sid, alias, G) # ""
             THEN RelTable(alias, find_physical_in_nested(sid, alias, G))
        ELSE IF in_branches(1).hit THEN in_branches(1).rel
        ELSE IF scope.parent # None
             THEN find_relation_in_scope_chain(alias, scope.parent, G)
        ELSE NoRelation

\* find_physical_table_in_tree of the self-reference check: "" is None
RECURSIVE find_physical_table_in_tree(_, _, _)
find_physical_table_in_tree(s, tbl_alias, G) ==
    LET rels == G[s].relations
        RECURSIVE scan(_)
        scan(i) ==
            IF i > Len(rels) THEN ""
            ELSE IF rels[i].kind = "Scope"
                    /\ find_physical_table_in_tree(rels[i].sid, tbl_alias, G) # ""
                 THEN find_physical_table_in_tree(rels[i].sid, tbl_alias, G)
                 ELSE scan(i + 1)
    IN  IF dict_has(rels, tbl_alias) /\ dict_get(rels, tbl_alias).kind = "str"
        THEN dict_get(rels, tbl_alias).tbl
        ELSE scan(1)

RECURSIVE find_column_in_nested(_, _, _)
find_column_in_nested(s, col, G) ==
    LET rels == G[s].relations
        branches == G[s].union_branches
        RECURSIVE in_branches(_)
        in_branches(i) ==
            IF i > Len(branches) THEN None
            ELSE IF find_column_in_nested(branches[i], col, G) # None
                 THEN find_column_in_nested(branches[i], col, G)
                 ELSE in_branches(i + 1)
        RECURSIVE scan(_)
        scan(i) ==
            IF i > Len(rels) THEN in_branches(1)
            ELSE IF rels[i].kind = "Scope"
                    /\ find_column_in_nested(rels[i].sid, col, G) # None
                 THEN find_column_in_nested(rels[i].sid, col, G)
                 ELSE scan(i + 1)
    IN  IF dict_has(G[s].projections, str_upper(col)) THEN s ELSE scan(1)

\* GUARD 1 left out
cycle_guard_off(key, visited) == FALSE

\* GUARD 2 left out
depth_guard_off(trace, maxd) == FALSE

\* GUARD 1: cycle_key = f"{id(scope)}:{ref}"
cycle_key(sid, ref) == <<sid, ref>>

cycle_guard(key, visited) == key \in visited

\* GUARD 2
depth_guard(trace, maxd) == Len(trace) > maxd

\* "All subquery scopes get fresh visited set"
child_visited(visited) == {}

\* "if depth > 10" of trace_to_physical
TraceDepthLimit == 10

(***************************************************************************)
(* A call returns [res, exc, log]: the list returned, whether it raised     *)
(* (RecursionError: the call would need a frame beyond the interpreter's    *)
(* limit), and the resolve_to_physical frames entered, in call order.       *)
(***************************************************************************)
Raise == [res |-> <<>>, exc |-> TRUE, log |-> <<>>]

Ret(res) == [res |-> res, exc |-> FALSE, log |-> <<>>]

NoCaller == [scope |-> None, visited |-> {}, tlen |-> 0]

RECURSIVE concat_res(_, _), concat_log(_, _)
concat_res(rs, n) == IF n = 0 THEN <<>> ELSE concat_res(rs, n - 1) \o rs[n].res

concat_log(rs, n) == IF n = 0 THEN <<>> ELSE concat_log(rs, n - 1) \o rs[n].log

\* calls made one after the other with results.extend(...): the first that
\* raises ends the sequence
combine(rs) ==
    LET raising == {i \in 1..Len(rs) : rs[i].exc}
        k == IF raising = {} THEN 0 ELSE CHOOSE i \in raising : \A j \in raising : i <= j
    IN  IF k = 0 THEN [res |-> concat_res(rs, Len(rs)), exc |-> FALSE,
                       log |-> concat_log(rs, Len(rs))]
        ELSE [res |-> concat_res(rs, k), exc |-> TRUE, log |-> concat_log(rs, k)]

\* r, then (when r returned nothing) what follows it
or_else(r, next) ==
    IF r.exc \/ r.res # <<>> THEN r
    ELSE [res |-> next.res, exc |-> next.exc, log |-> r.log \o next.log]

scope_rels(sid, G) == SelectSeq(G[sid].relations, LAMBDA r : r.kind = "Scope")

table_rels(sid, G) == SelectSeq(G[sid].relations, LAMBDA r : r.kind = "str")

has_proj(sid, col, G) == dict_has(G[sid].projections, str_upper(col))

get_proj(sid, col, G) == dict_get(G[sid].projections, str_upper(col))

RECURSIVE trace_to_physical(_, _, _, _, _, _)
trace_to_physical(current_scope, col, path, depth, frames, E) ==
    LET G == E.G
        rels == G[current_scope].relations
        RECURSIVE search(_)
        search(i) ==
            IF i > Len(rels) THEN Ret(<<>>)
            ELSE IF rels[i].kind = "Scope" /\ has_proj(rels[i].sid, col, G)
                 THEN or_else(trace_to_physical(rels[i].sid, col,
                                                Append(path, G[rels[i].sid].name),
                                                depth + 1, frames + 1, E),
                              search(i + 1))
                 ELSE search(i + 1)
        proj == get_proj(current_scope, col, G)
        refs == IF proj.source_refs # <<>> THEN proj.source_refs
                ELSE call("extract_column_refs", <<proj.expression>>)
        expr_stripped == strip(proj.expression)
        qualified(r, ref_alias, ref_col) ==
            LET rel == call("find_relation_in_scope_chain", <<ref_alias, current_scope, G>>)
            IN  IF rel.kind = "str"
                THEN Ret(<<Physical(rel.tbl, ref_col, E.dm, path, ref_alias, r)>>)
                ELSE IF rel.kind = "Scope"
                THEN trace_to_physical(rel.sid, ref_col, Append(path, G[rel.sid].name),
                                       depth + 1, frames + 1, E)
                ELSE Ret(<<>>)
        unqualified(ref_col) ==
            LET tabs == table_rels(current_scope, G)
                subs == SelectSeq(scope_rels(current_scope, G),
                                  LAMBDA c : has_proj(c.sid, ref_col, G))
                physical_results ==
                    [i \in 1..Len(tabs) |->
                        Physical(tabs[i].tbl, ref_col, E.dm, path, tabs[i].key, ref_col)]
                scope_results ==
                    combine([i \in 1..Len(subs) |->
                        trace_to_physical(subs[i].sid, ref_col,
                                          Append(path, G[subs[i].sid].name),
                                          depth + 1, frames + 1, E)])
            IN  IF scope_results.exc \/ scope_results.res # <<>> THEN scope_results
                ELSE [scope_results EXCEPT !.res = physical_results]
        of_ref(r) ==
            IF call("parse_ref", <<r>>).alias # "" THEN qualified(r, call("parse_ref", <<r>>).alias, call("parse_ref", <<r>>).column)
            ELSE unqualified(call("parse_ref", <<r>>).column)
    IN  IF frames > E.limit THEN Raise
        ELSE IF depth > TraceDepthLimit THEN Ret(<<>>)
        ELSE IF ~has_proj(current_scope, col, G) THEN search(1)
        ELSE IF refs = <<>> /\ call("is_constant", <<expr_stripped>>)
             THEN Ret(<<Constant(expr_stripped, path)>>)
        ELSE combine([i \in 1..Len(refs) |-> of_ref(refs[i])])

\* re.search(r'\(\s*SELECT\b', expr, re.IGNORECASE)
has_scalar_subquery(expr) ==
    \E i \in 1..Len(expr) :
        /\ ch(expr, i) = "("
        /\ LET j == run_end(expr, i + 1, SpaceSet) + 1
           IN  /\ j + 5 <= Len(expr)
               /\ str_upper(SubSeq(expr, j, j + 5)) = "SELECT"
               /\ (j + 6 > Len(expr) \/ ~is_word(ch(expr, j + 6)))

\* The scalar subquery the statements modelled use, as text and as parsed by
\* sqlglot.parse_one(f"SELECT {expr} AS _x"); keywords and identifiers are
\* matched in any case and the nodes keep the case of the text.  Any other
\* "(SELECT" text is taken not to parse (the try block's except path)
ScalarSql == "(SELECT MAX(c.z) FROM T_C c WHERE c.k = a.k)"

ScalarAstOf(text) ==
    Select(<<>>, <<Expr(SubSeq(text, 9, 16))>>,
           Table(SubSeq(text, 23, 25), SubSeq(text, 27, 27)), <<>>)

ScalarAst == ScalarAstOf(ScalarSql)

find_all_subquery(expr) ==
    LET found(k) ==
            IF k = 0 THEN [ok |-> FALSE, subqs |-> <<>>]
            ELSE [ok |-> TRUE,
                  subqs |-> <<[this |-> ScalarAstOf(SubSeq(expr, k, k + Len(ScalarSql) - 1)),
                               sql  |-> SubSeq(expr, k, k + Len(ScalarSql) - 1)]>>]
    IN  found(str_find(str_upper(expr), str_upper(ScalarSql), 1))

frame_of(sid, ref, visited, trace, frames, cl, hit, r) ==
    [scope |-> sid, ref |-> ref, visited |-> visited, tlen |-> Len(trace),
     frames |-> frames, caller |-> cl, hit |-> hit, out |-> r.res, exc |-> r.exc,
     sub |-> Len(r.log)]

RECURSIVE resolve_to_physical(_, _, _, _, _, _, _)
RECURSIVE resolve_expression(_, _, _, _, _, _, _)
RECURSIVE resolve_union(_, _, _, _, _, _, _, _)
RECURSIVE resolve_qualified(_, _, _, _, _, _, _, _, _)
RECURSIVE resolve_unqualified(_, _, _, _, _, _, _, _)
RECURSIVE resolve_identity(_, _, _, _, _, _)
RECURSIVE resolve_scalar_subqueries(_, _, _, _, _, _, _)

\* the branch loop of a UNION scope u (lines 1707-1751 and 1810-1868);
\* direct: the unqualified form, which also tries the column in the branch
resolve_union(u, column, visited, trace, frames, me, E, direct) ==
    LET G == E.G
        branches == G[u].union_branches
        first_names == G[branches[1]].projections
        hits == {i \in 1..Len(first_names) : first_names[i].key = str_upper(column)}
        target_idx == IF hits = {} THEN 0 ELSE CHOOSE i \in hits : TRUE
        into(b, proj) == call("resolve_expression", <<proj.expression, b, visited,
                                            Append(trace, G[b].name), frames + 1, me, E>>)
        resolved_only(r) ==
            [r EXCEPT !.res = SelectSeq(r.res, LAMBDA x : x.source_type # "UNRESOLVED")]
        of_branch(b) ==
            IF has_proj(b, column, G) THEN into(b, get_proj(b, column, G))
            ELSE IF target_idx # 0
            THEN IF target_idx <= Len(G[b].projections)
                 THEN into(b, G[b].projections[target_idx])
                 ELSE Ret(<<>>)
            ELSE IF direct
            THEN resolved_only(call("resolve_to_physical", <<column, b, visited,
                                                   Append(trace, G[b].name),
                                                   frames + 1, me, E>>))
            ELSE Ret(<<>>)
    IN  combine([i \in 1..Len(branches) |-> of_branch(branches[i])])

\* STEP 3 (lines 1618-1804)
resolve_qualified(ref, alias, column, sid, visited, trace, frames, me, E) ==
    LET G == E.G
        relation == call("find_relation_in_scope_chain", <<alias, sid, G>>)
        rel == relation.sid
        physical_table == find_physical_table_in_tree(sid, str_upper(alias), G)
        fresh == child_visited(visited)
        missing == Ret(<<Unresolved("MISSING_PROJECTION", trace, alias \o "." \o column)>>)
        nested_with_col == find_column_in_nested(rel, column, G)
        nested ==
            IF nested_with_col # None
            THEN call("resolve_expression", <<get_proj(nested_with_col, column, G).expression,
                                    nested_with_col, fresh,
                                    Append(trace, G[nested_with_col].name),
                                    frames + 1, me, E>>)
            ELSE missing
    IN  IF relation.kind = "None"
        THEN Ret(<<Unresolved("ALIAS_NOT_FOUND", trace, ref)>>)
        ELSE IF relation.kind = "str"
        THEN Ret(<<Physical(relation.tbl, column, E.dm, trace, alias, ref)>>)
        ELSE IF rel = sid
        THEN IF physical_table # ""
             THEN Ret(<<Physical(physical_table, column, E.dm, trace, "", "")>>)
             ELSE IF has_proj(sid, column, G)
             THEN call("resolve_expression", <<get_proj(sid, column, G).expression, sid,
                                     visited, trace, frames + 1, me, E>>)
             ELSE missing
        ELSE IF G[rel].union_branches # <<>>
        THEN or_else(call("resolve_union", <<rel, column, fresh, trace, frames, me, E, FALSE>>),
                     nested)
        ELSE IF has_proj(rel, column, G)
        THEN call("resolve_expression", <<get_proj(rel, column, G).expression, rel, fresh,
                                Append(trace, G[rel].name), frames + 1, me, E>>)
        ELSE nested

\* the identity case (lines 1900-2032)
\* the child scopes in the order of scope.relations, whatever the origin
child_scopes_as_declared(subs, origin) == subs

\* "Build ordered list of child scopes to check (origin first)"
child_scopes_origin_first(subs, origin) ==
    SelectSeq(subs, LAMBDA r : origin # "" /\ str_upper(r.key) = origin)
    \o SelectSeq(subs, LAMBDA r : ~(origin # "" /\ str_upper(r.key) = origin))

resolve_identity(column, sid, trace, frames, proj, E) ==
    LET G == E.G
        origin == str_upper(proj.origin_alias)
        subs == scope_rels(sid, G)
        child_scopes_to_check == child_scopes_origin_first(subs, origin)
        RECURSIVE check(_)
        check(i) ==
            IF i > Len(child_scopes_to_check) THEN Ret(<<>>)
            ELSE IF has_proj(child_scopes_to_check[i].sid, column, G)
                 THEN or_else(call("trace_to_physical", <<child_scopes_to_check[i].sid, column,
                                  Append(trace, G[child_scopes_to_check[i].sid].name),
                                  0, frames + 1, E>>),
                              check(i + 1))
                 ELSE check(i + 1)
        tabs == table_rels(sid, G)
        physical_results ==
            IF child_scopes_to_check = <<>>
            THEN [i \in 1..Len(tabs) |->
                     Physical(tabs[i].tbl, column, E.dm, trace, tabs[i].key, column)]
            ELSE <<>>
    IN  or_else(check(1),
                Ret(IF physical_results # <<>> THEN physical_results
                    ELSE <<Unresolved("COLUMN_NOT_FOUND", trace, column)>>))

\* is_identity of lines 1876-1889
is_identity(proj, column, sid, G) ==
    LET expr_refs == call("extract_column_refs", <<proj.expression>>)
        pr == call("parse_ref", <<expr_refs[1]>>)
    IN  IF call("normalize_identifier", <<proj.expression>>) = str_upper(column) THEN TRUE
        ELSE IF Len(expr_refs) = 1 /\ str_upper(pr.column) = str_upper(column)
        THEN ~(pr.alias # "" /\ dict_has(G[sid].relations, str_upper(pr.alias)))
        ELSE FALSE

\* STEP 4 (lines 1807-2081)
\* the candidates of the physical tables before those of the child scopes
prefer_tables(scope_candidates, physical_candidates) ==
    or_else(physical_candidates, scope_candidates)

\* lines 2066-2070: the candidates of the child scopes, those of the
\* physical tables only when there are none
prefer_scopes(scope_candidates, physical_candidates) ==
    or_else(scope_candidates, physical_candidates)

resolve_unqualified(ref, column, sid, visited, trace, frames, me, E) ==
    LET G == E.G
        scope == G[sid]
        proj == get_proj(sid, column, G)
        from_union == IF scope.union_branches # <<>>
                      THEN call("resolve_union", <<sid, column, visited, trace, frames, me, E, TRUE>>)
                      ELSE Ret(<<>>)
        subs == SelectSeq(scope_rels(sid, G), LAMBDA r : has_proj(r.sid, column, G))
        scope_candidates ==
            combine([i \in 1..Len(subs) |->
                call("resolve_expression", <<get_proj(subs[i].sid, column, G).expression,
                                   subs[i].sid, visited,
                                   Append(trace, G[subs[i].sid].name), frames + 1, me, E>>)])
        tabs == SelectSeq(table_rels(sid, G),
                          LAMBDA r : column_exists_in_dm(r.tbl, column, E.dm))
        physical_candidates ==
            [i \in 1..Len(tabs) |->
                ResolvedColumn("PHYSICAL", tabs[i].tbl, column, "",
                               join_strs(trace, "->") \o ":" \o tabs[i].tbl \o "." \o column,
                               "", "Y", "", "")]
        walk_up ==
            IF scope.parent # None
            THEN call("resolve_to_physical", <<ref, scope.parent, visited, trace, frames + 1, me, E>>)
            ELSE Ret(<<Unresolved("COLUMN_NOT_FOUND", trace, column)>>)
        in_scope ==
            IF has_proj(sid, column, G)
            THEN IF ~call("is_identity", <<proj, column, sid, G>>)
                 THEN call("resolve_expression", <<proj.expression, sid, visited, trace,
                                         frames + 1, me, E>>)
                 ELSE call("resolve_identity", <<column, sid, trace, frames, proj, E>>)
            ELSE or_else(prefer_scopes(scope_candidates, Ret(physical_candidates)),
                         walk_up)
    IN  or_else(from_union, in_scope)

resolve_to_physical(ref0, sid, visited0, trace, frames, cl, E) ==
    LET ref == str_upper(normalize_whitespace(ref0))
        key == cycle_key(sid, ref)
        hit == cycle_guard(key, visited0)
        visited == visited0 \cup {key}
        me == [scope |-> sid, visited |-> visited0, tlen |-> Len(trace)]
        alias == call("parse_ref", <<ref>>).alias
        column == call("parse_ref", <<ref>>).column
        r == IF hit THEN Ret(<<Unresolved("CYCLE_DETECTED", trace, "")>>)
             ELSE IF depth_guard(trace, E.max_depth)
             THEN Ret(<<Unresolved("DEPTH_GUARD", trace, "")>>)
             ELSE IF call("is_constant", <<ref>>) THEN Ret(<<Constant(ref, trace)>>)
             ELSE IF alias # ""
             THEN call("resolve_qualified", <<ref, alias, column, sid, visited, trace, frames, me, E>>)
             ELSE call("resolve_unqualified", <<ref, column, sid, visited, trace, frames, me, E>>)
    IN  IF frames > E.limit THEN Raise
        ELSE [r EXCEPT !.log = <<frame_of(sid, ref, visited0, trace, frames, cl, hit, r)>> \o @]

\* a scope for the subquery that is also entered among the relations of the
\* scope it is built below
sub_scope_registered(subq, sid, E) ==
    LET built == call("build_scope_tree", <<subq.this, E.G[sid].name \o "/SCALAR", sid,
                                  E.dm, E.order, E.G>>)
    IN  [built EXCEPT !.g[sid].relations = dict_put(@, RelScope("SCALAR", built.id))]

\* line 2124: the scope of a scalar subquery, built with scope sid as parent;
\* returns [g |-> the graph with the new scope, id |-> the new scope]
sub_scope_of(subq, sid, E) ==
    call("build_scope_tree", <<subq.this, E.G[sid].name \o "/SCALAR", sid, E.dm, E.order, E.G>>)

\* the try block of lines 2119-2149: the scopes of the scalar subqueries are
\* built on the fly, below scope sid
resolve_scalar_subqueries(expr, sid, visited, trace, frames, cl, E) ==
    LET parsed == find_all_subquery(expr)
        of_subq(subq) ==
            LET built == sub_scope_of(subq, sid, E)
                sub_scope == built.id
                E2 == [E EXCEPT !.G = built.g]
                projs == E2.G[sub_scope].projections
                refs == SelectSeq(call("extract_column_refs", <<subq.sql>>),
                           LAMBDA ref : /\ contains(ref, ".")
                                        /\ ~dict_has(E2.G[sub_scope].relations,
                                                     str_upper(call("parse_ref", <<ref>>).alias))
                                        /\ ~dict_has(E2.G[sub_scope].ctes,
                                                     str_upper(call("parse_ref", <<ref>>).alias)))
            IN  combine([i \in 1..(Len(projs) + Len(refs)) |->
                    IF i <= Len(projs)
                    THEN call("resolve_expression", <<projs[i].expression, sub_scope, visited,
                                            Append(trace, E2.G[sub_scope].name),
                                            frames + 1, cl, E2>>)
                    ELSE call("resolve_to_physical", <<refs[i - Len(projs)], sid, visited, trace,
                                             frames + 1, cl, E2>>)])
    IN  IF ~parsed.ok THEN Raise
        ELSE combine([i \in 1..Len(parsed.subqs) |-> of_subq(parsed.subqs[i])])

\* one visited set shared by the references of an expression: the i-th
\* reference finds the keys the references before it added
visited_shared(visited, sid, refs, i) ==
    visited \cup {cycle_key(sid, str_upper(normalize_whitespace(refs[k]))) : k \in 1..(i - 1)}

\* "visited.copy()": the set handed to the i-th reference of an expression
visited_copy(visited, sid, refs, i) == visited

resolve_expression(expr, sid, visited, trace, frames, cl, E) ==
    LET refs == call("extract_column_refs", <<expr>>)
        sub == IF has_scalar_subquery(expr)
               THEN call("resolve_scalar_subqueries", <<expr, sid, visited, trace, frames, cl, E>>)
               ELSE Ret(<<>>)
        \* results as the try block left it; an exception in it is swallowed
        results == sub.res
        rest == combine([i \in 1..Len(refs) |->
                    call("resolve_to_physical", <<refs[i], sid, visited_copy(visited, sid, refs, i),
                                        trace, frames + 1, cl, E>>)])
    IN  IF frames > E.limit THEN Raise
        ELSE IF call("is_constant", <<strip(expr)>>) THEN Ret(<<Constant(strip(expr), trace)>>)
        ELSE IF ~sub.exc /\ results # <<>> THEN sub
        ELSE IF refs = <<>>
        THEN [res |-> <<Constant(expr, trace)>>, exc |-> FALSE, log |-> sub.log]
        ELSE [res |-> results \o rest.res, exc |-> rest.exc, log |-> sub.log \o rest.log]

\* Level 2 without its try/except
resolve_partial_uncaught(ref, sid, E) ==
    call("resolve_to_physical", <<ref, sid, {}, <<E.G[sid].name>>, 1, NoCaller, E>>)

\* Level 2 of resolve_with_fallback, one ref
resolve_partial(ref, sid, E) ==
    LET r == call("resolve_to_physical", <<ref, sid, {}, <<E.G[sid].name>>, 1, NoCaller, E>>)
    IN  IF r.exc
        THEN [r EXCEPT !.exc = FALSE,
                       !.res = <<ResolvedColumn("UNRESOLVED", "", ref, "", "",
                                                "PARTIAL_FAILURE", "N", "", "")>>]
        ELSE r

\* adds l1exc: Level 1 raised
resolve_with_fallback(expr, sid, E) ==
    LET level1 == call("resolve_expression", <<expr, sid, {}, <<E.G[sid].name>>, 1, NoCaller, E>>)
        refs == call("extract_column_refs", <<expr>>)
        partial == combine([i \in 1..Len(refs) |-> call("resolve_partial", <<refs[i], sid, E>>)])
        last_resort == <<ResolvedColumn("UNRESOLVED", "", "", expr, "",
                                        "COMPLETE_FAILURE", "N", "", "")>>
    IN  IF ~level1.exc /\ level1.res # <<>>
        THEN [res |-> level1.res, exc |-> FALSE, log |-> level1.log, l1exc |-> FALSE]
        ELSE [res |-> IF partial.exc \/ partial.res = <<>> THEN last_resort
                      ELSE partial.res,
              exc |-> FALSE, log |-> level1.log \o partial.log, l1exc |-> level1.exc]

(***************************************************************************)
(* Join collection and explosion                                            *)
(***************************************************************************)
\* collect_joins_with_scopes: <<join, scope>> pairs, each scope's joins, then
\* its relation scopes, its CTE scopes and its UNION branches
RECURSIVE collect_joins_with_scopes(_, _)
collect_joins_with_scopes(sid, G) ==
    LET scope == G[sid]
        own == [i \in 1..Len(scope.joins) |-> [join |-> scope.joins[i], scope |-> sid]]
        RECURSIVE each(_, _)
        each(ids, i) == IF i > Len(ids) THEN <<>>
                        ELSE collect_joins_with_scopes(ids[i], G) \o each(ids, i + 1)
        children == [i \in 1..Len(scope_rels(sid, G)) |-> scope_rels(sid, G)[i].sid]
        built == SelectSeq(scope.ctes, LAMBDA c : c.sid # None)
        cte_scopes == [i \in 1..Len(built) |-> built[i].sid]
    IN  own \o each(children, 1) \o each(cte_scopes, 1) \o each(scope.union_branches, 1)

JoinKeyExploded(join, join_side, field_role, original_alias, original_field,
                resolved, join_condition, object_name, sql_file) ==
    [sql_file |-> sql_file, object_name |-> object_name, join_seq |-> join.join_seq,
     join_type |-> join.join_type, join_side |-> join_side, field_role |-> field_role,
     original_alias |-> original_alias, original_field |-> original_field,
     source_type |-> resolved.source_type, physical_table |-> resolved.table,
     physical_field |-> resolved.column, constant_value |-> resolved.constant_value,
     dm_match |-> resolved.dm_match, trace_path |-> resolved.trace_path,
     unresolved_reason |-> IF resolved.source_type = "UNRESOLVED" THEN resolved.reason
                           ELSE "",
     join_condition |-> join_condition, context_path |-> join.context_path,
     full_expression |-> join_condition]

\* the resolved columns of r as exploded join fields
exploded_of(r, ref, join, join_side, field_role, join_condition, object_name, sql_file) ==
    [r EXCEPT !.res =
        [i \in 1..Len(r.res) |->
            JoinKeyExploded(join, join_side, field_role, call("parse_ref", <<ref>>).alias,
                            call("parse_ref", <<ref>>).column, r.res[i], join_condition,
                            object_name, sql_file)]]

\* _resolve_join_field with the root as the starting scope
_resolve_join_field_in_root(ref, sid, join, join_side, field_role, object_name, sql_file, E) ==
    exploded_of(call("resolve_to_physical", <<ref, 1, {}, <<E.G[1].name>>, 1, NoCaller, E>>),
                ref, join, join_side, field_role, join.join_condition, object_name, sql_file)

_resolve_join_field(ref, sid, join, join_side, field_role, object_name, sql_file, E) ==
    exploded_of(call("resolve_to_physical", <<ref, sid, {}, <<E.G[sid].name>>, 1, NoCaller, E>>),
                ref, join, join_side, field_role, join.join_condition, object_name, sql_file)

KnownSchemas == {"ATOMIC", "DBO", "PUBLIC", "SYS", "SCHEMA", "ADMIN", "APP"}

\* FIX 19
_filter_non_column_refs(refs, dm, sid, G) ==
    LET all_tables == IF dm.none \/ DOMAIN dm.d = {} THEN {}
                      ELSE {str_upper(t) : t \in DOMAIN dm.d}
        scope_aliases == {str_upper(G[sid].relations[i].key) : i \in 1..Len(G[sid].relations)}
        keep(ref) ==
            LET k == str_find(ref, ".", 1)
                left_upper == str_upper(SubSeq(ref, 1, k - 1))
                right_upper == str_upper(from(ref, k + 1))
            IN  IF k # 0
                THEN ~(left_upper \in KnownSchemas /\ right_upper \in all_tables)
                     /\ ~(right_upper \in all_tables /\ left_upper \notin scope_aliases)
                ELSE str_upper(ref) \notin all_tables /\ str_upper(ref) \notin scope_aliases
    IN  SelectSeq(refs, keep)

_resolve_join_filters(filters, sid, join, object_name, sql_file, E) ==
    LET refs == _filter_non_column_refs(call("extract_column_refs", <<filters>>), E.dm, sid, E.G)
    IN  combine([i \in 1..Len(refs) |->
            exploded_of(call("resolve_to_physical", <<refs[i], sid, {}, <<E.G[sid].name>>, 1,
                                            NoCaller, E>>),
                        refs[i], join, "FILTER", "FILTER", filters, object_name, sql_file)])

explode_join_keys(joins_with_scopes, object_name, sql_file, E) ==
    LET of_pair(p) ==
            LET join == p.join
                left_ref == IF join.left_table # ""
                            THEN join.left_table \o "." \o join.left_field
                            ELSE join.left_field
                right_ref == IF join.right_table # ""
                             THEN join.right_table \o "." \o join.right_field
                             ELSE join.right_field
            IN  combine(<<
                    IF join.left_field # ""
                    THEN call("_resolve_join_field", <<left_ref, p.scope, join, "LEFT", "KEY",
                                             object_name, sql_file, E>>)
                    ELSE Ret(<<>>),
                    IF join.right_field # ""
                    THEN call("_resolve_join_field", <<right_ref, p.scope, join, "RIGHT", "KEY",
                                             object_name, sql_file, E>>)
                    ELSE Ret(<<>>),
                    IF join.join_filters # ""
                    THEN call("_resolve_join_filters", <<join.join_filters, p.scope, join,
                                               object_name, sql_file, E>>)
                    ELSE Ret(<<>>) >>)
    IN  combine([i \in 1..Len(joins_with_scopes) |-> of_pair(joins_with_scopes[i])])

(***************************************************************************)
(* Lineage edges                                                            *)
(***************************************************************************)
LineageEdge(row_type, dest_table, dest_field, source_type, source_table, source_field,
            constant_value, expression, dm_match, trace_path, notes, source_alias,
            original_ref, full_expression, object_name, sql_file) ==
    [sql_file |-> sql_file, object_name |-> object_name, row_type |-> row_type,
     dest_table |-> dest_table, dest_field |-> dest_field, source_type |-> source_type,
     source_table |-> source_table, source_field |-> source_field,
     constant_value |-> constant_value, expression |-> expression,
     dm_match |-> dm_match, trace_path |-> trace_path, notes |-> notes,
     source_alias |-> source_alias, original_ref |-> original_ref,
     full_expression |-> full_expression, table_alias |-> "", join_seq |-> "",
     join_type |-> "", join_side |-> "", field_role |-> "", join_condition |-> "",
     context_path |-> ""]

\* a mapping row: the cells of the T2T-F2T sheet
MappingRow(target_table, target_column, source_table, source_column, expression) ==
    [target_table |-> target_table, target_column |-> target_column,
     source_table |-> source_table, source_column |-> source_column,
     expression |-> expression]

is_direct_mapping(row) ==
    LET expr == safe_str(row.expression)
        source_table == safe_str(row.source_table)
        source_column == safe_str(row.source_column)
    IN  IF expr # "" THEN FALSE
        ELSE IF source_table = "" \/ source_column = "" THEN FALSE
        ELSE IF str_upper(source_table) = "EXPRESSION" THEN FALSE
        ELSE TRUE

create_direct_mapping_edge(row, object_name, dm, sql_file) ==
    LET source_table == call("normalize_identifier", <<safe_str(row.source_table)>>)
        source_column == call("normalize_identifier", <<safe_str(row.source_column)>>)
        orig_ref == source_table \o "." \o source_column
    IN  LineageEdge("MAPPING", safe_str(row.target_table), safe_str(row.target_column),
                    "PHYSICAL", source_table, source_column, "", orig_ref,
                    IF column_exists_in_dm(source_table, source_column, dm) THEN "Y"
                    ELSE "N",
                    "DIRECT_MAPPING",
                    "Direct mapping from Source Table/Column (no Expression)",
                    "", orig_ref, orig_ref, object_name, sql_file)

\* the LineageEdge of one resolved column of a mapping row
mapping_edge(row, expr, resolved, object_name, sql_file) ==
    LineageEdge("MAPPING", safe_str(row.target_table), safe_str(row.target_column),
                resolved.source_type, resolved.table, resolved.column,
                resolved.constant_value, expr, resolved.dm_match, resolved.trace_path,
                resolved.reason, resolved.source_alias, resolved.original_ref,
                IF resolved.full_expression # "" THEN resolved.full_expression ELSE expr,
                object_name, sql_file)

\* the expression process_sql_file resolves for a row
row_expression(row) ==
    IF call("is_direct_mapping", <<row>>)
    THEN safe_str(row.source_table) \o "." \o safe_str(row.source_column)
    ELSE IF safe_str(row.expression) # "" THEN safe_str(row.expression)
    ELSE IF safe_str(row.source_column) # "" THEN safe_str(row.source_column)
    ELSE safe_str(row.target_column)

\* the loop body without the direct-mapping fallback
row_edges_without_fallback(row, resolved_columns, object_name, dm, sql_file) ==
    [i \in 1..Len(resolved_columns) |->
        mapping_edge(row, call("row_expression", <<row>>), resolved_columns[i], object_name, sql_file)]

\* the edges the loop body of process_sql_file appends for a row
row_edges(row, resolved_columns, object_name, dm, sql_file) ==
    LET all_unresolved == \A i \in 1..Len(resolved_columns) :
                              resolved_columns[i].source_type = "UNRESOLVED"
    IN  IF call("is_direct_mapping", <<row>>) /\ (resolved_columns = <<>> \/ all_unresolved)
        THEN <<call("create_direct_mapping_edge", <<row, object_name, dm, sql_file>>)>>
        ELSE [i \in 1..Len(resolved_columns) |->
                 mapping_edge(row, call("row_expression", <<row>>), resolved_columns[i],
                              object_name, sql_file)]

join_edge(jke) ==
    LET orig_ref == IF jke.original_alias # ""
                    THEN jke.original_alias \o "." \o jke.original_field
                    ELSE jke.original_field
    IN  [LineageEdge("JOIN", "", "", jke.source_type, jke.physical_table,
                     jke.physical_field, jke.constant_value, orig_ref, jke.dm_match,
                     jke.trace_path, jke.unresolved_reason, jke.original_alias, orig_ref,
                     jke.full_expression, jke.object_name, jke.sql_file)
         EXCEPT !.table_alias = jke.original_alias,
                !.join_seq = IF jke.join_seq # 0 THEN int_str(jke.join_seq) ELSE "",
                !.join_type = jke.join_type, !.join_side = jke.join_side,
                !.field_role = jke.field_role, !.join_condition = jke.join_condition,
                !.context_path = jke.context_path]

(***************************************************************************)
(* normalize_sql and strip_comments                                         *)
(***************************************************************************)
\* chr(27), the character written \x1b and \033 in the patterns
ESC == ""

\* the class [\u2003\u2002\u2001\u2000\u00A0]: the member a string of 8-bit
\* characters can hold, \u00A0, stands for all five
UnicodeSpaces == {" "}

\* what \s matches
RegexSpace == SpaceSet \cup UnicodeSpaces

\* re.sub(pattern, repl, s) for a pattern that matches no empty string:
\* m(s, i) is the index of the last character of the match starting at i
\* (0 when there is none), r(s, i, j) what replaces s[i..j]
re_sub(s, m(_, _), r(_, _, _)) ==
    LET RECURSIVE go(_)
        go(i) == IF i > Len(s) THEN ""
                 ELSE LET j == m(s, i)
                      IN  IF j # 0 THEN r(s, i, j) \o go(j + 1)
                          ELSE ch(s, i) \o go(i + 1)
    IN  go(1)

\* the literal text lit at i, compared as re.IGNORECASE compares
ci_at(s, i, lit) ==
    i + Len(lit) - 1 <= Len(s) /\ str_upper(SubSeq(s, i, i + Len(lit) - 1)) = str_upper(lit)

cs_at(s, i, lit) == i + Len(lit) - 1 <= Len(s) /\ SubSeq(s, i, i + Len(lit) - 1) = lit

\* intro\[[0-9;]*m
ansi_end(s, i, intro, ignorecase) ==
    IF IF ignorecase THEN ci_at(s, i, intro \o "[") ELSE cs_at(s, i, intro \o "[")
    THEN LET k == run_end(s, i + Len(intro) + 1, DigitSet \cup {";"}) + 1
         IN  IF k <= Len(s) /\ (ch(s, k) = "m" \/ (ignorecase /\ ch(s, k) = "M"))
             THEN k ELSE 0
    ELSE 0

\* '\$([A-Z_][A-Z0-9_]*)'
quoted_var_end(s, i) ==
    IF cs_at(s, i, "'$") /\ i + 2 <= Len(s) /\ is_alpha_(ch(s, i + 2))
    THEN LET k == run_end(s, i + 3, WordSet) + 1
         IN  IF k <= Len(s) /\ ch(s, k) = "'" THEN k ELSE 0
    ELSE 0

\* \$([A-Z_]*DATE[A-Z0-9_]*)\b
date_var_end(s, i) ==
    IF ch(s, i) = "$"
    THEN LET k == run_end(s, i + 1, WordSet)
         IN  IF \E p \in (i + 1)..(k - 3) :
                    /\ ci_at(s, p, "DATE")
                    /\ \A q \in (i + 1)..(p - 1) : is_alpha_(ch(s, q))
             THEN k ELSE 0
    ELSE 0

\* \$([A-Z_][A-Z0-9_]*)\b
var_end(s, i) ==
    IF ch(s, i) = "$" /\ i + 1 <= Len(s) /\ is_alpha_(ch(s, i + 1))
    THEN run_end(s, i + 2, WordSet)
    ELSE 0

\* \|\|\s*~\s*\|\|
tilde_end(s, i) ==
    IF cs_at(s, i, "||")
    THEN LET a == run_end(s, i + 2, RegexSpace) + 1
         IN  IF a <= Len(s) /\ ch(s, a) = "~"
             THEN LET b == run_end(s, a + 1, RegexSpace) + 1
                  IN  IF cs_at(s, b, "||") THEN b + 1 ELSE 0
             ELSE 0
    ELSE 0

\* \b([A-Z_][A-Z0-9_]*)\s+AS\s+\1\b
double_alias_end(s, i) ==
    IF is_alpha_(ch(s, i)) /\ (i = 1 \/ ~is_word(ch(s, i - 1)))
    THEN LET k == run_end(s, i + 1, WordSet)
             a == run_end(s, k + 1, RegexSpace)
             b == run_end(s, a + 3, RegexSpace)
             e == b + (k - i + 1)
         IN  IF /\ a > k
                /\ ci_at(s, a + 1, "AS")
                /\ b > a + 2
                /\ ci_at(s, b + 1, SubSeq(s, i, k))
                /\ (e = Len(s) \/ ~is_word(ch(s, e + 1)))
             THEN e ELSE 0
    ELSE 0

\* the index after the comment that opens at i - 2
RECURSIVE block_comment_end(_, _)
block_comment_end(sql, i) ==
    IF i < Len(sql) /\ SubSeq(sql, i, i + 1) # "*/" THEN block_comment_end(sql, i + 1)
    ELSE i + 2

\* the index of the next newline at or after i (Len + 1 when there is none)
\* the end of a -- comment taken past its newline
RECURSIVE line_end_past_newline(_, _)
line_end_past_newline(sql, i) ==
    IF i <= Len(sql) /\ ch(sql, i) # "\n" THEN line_end_past_newline(sql, i + 1) ELSE i + 1

RECURSIVE line_end(_, _)
line_end(sql, i) ==
    IF i <= Len(sql) /\ ch(sql, i) # "\n" THEN line_end(sql, i + 1) ELSE i

RECURSIVE strip_comments_from(_, _, _)
strip_comments_from(sql, i, in_string) ==
    IF i > Len(sql) THEN ""
    ELSE IF ch(sql, i) = "'" /\ ~in_string
         THEN "'" \o strip_comments_from(sql, i + 1, TRUE)
    ELSE IF ch(sql, i) = "'" /\ in_string
         THEN IF i + 1 <= Len(sql) /\ ch(sql, i + 1) = "'"
              THEN "''" \o strip_comments_from(sql, i + 2, TRUE)
              ELSE "'" \o strip_comments_from(sql, i + 1, FALSE)
    ELSE IF ~in_string /\ cs_at(sql, i, "--")
         THEN strip_comments_from(sql, line_end(sql, i), FALSE)
    ELSE IF ~in_string /\ cs_at(sql, i, "/*")
         THEN strip_comments_from(sql, block_comment_end(sql, i + 2), FALSE)
    ELSE ch(sql, i) \o strip_comments_from(sql, i + 1, in_string)

strip_comments(sql) == strip_comments_from(sql, 1, FALSE)

\* lines 721-725: ANSI colour codes, written with ESC and with the text "esc"
strip_ansi(sql) ==
    LET s1 == re_sub(sql, LAMBDA s, i : ansi_end(s, i, ESC, FALSE), LAMBDA s, i, j : "")
        s2 == re_sub(s1, LAMBDA s, i : ansi_end(s, i, ESC, FALSE), LAMBDA s, i, j : "")
    IN  re_sub(s2, LAMBDA s, i : ansi_end(s, i, "esc", TRUE), LAMBDA s, i, j : "")

\* line 730
replace_unicode_spaces(sql) ==
    re_sub(sql, LAMBDA s, i : IF ch(s, i) \in UnicodeSpaces
                              THEN run_end(s, i, UnicodeSpaces) ELSE 0,
           LAMBDA s, i, j : " ")

\* lines 734-735
replace_placeholders(sql) ==
    LET s1 == re_sub(sql, LAMBDA s, i : IF ci_at(s, i, "[VARTECHSRC]") THEN i + 11 ELSE 0,
                     LAMBDA s, i, j : "'PLACEHOLDER_VARTECHSRC'")
    IN  re_sub(s1, LAMBDA s, i : IF ci_at(s, i, "[PERIMETER]") THEN i + 10 ELSE 0,
               LAMBDA s, i, j : "'PLACEHOLDER_PERIMETER'")

\* line 741
replace_quoted_vars(sql) ==
    re_sub(sql, quoted_var_end,
           LAMBDA s, i, j : "'PLACEHOLDER_" \o SubSeq(s, i + 2, j - 1) \o "'")

\* line 747
replace_date_vars(sql) == re_sub(sql, date_var_end, LAMBDA s, i, j : "DATE '2025-09-30'")

\* line 752
replace_vars(sql) ==
    re_sub(sql, var_end, LAMBDA s, i, j : "'PLACEHOLDER_" \o SubSeq(s, i + 1, j) \o "'")

\* line 758
fix_tilde(sql) == re_sub(sql, tilde_end, LAMBDA s, i, j : "|| '~' ||")

\* line 764
fix_double_alias(sql) ==
    re_sub(sql, double_alias_end,
           LAMBDA s, i, j : SubSeq(s, i, run_end(s, i + 1, WordSet)))

\* line 768
normalize_backslash_quotes(sql) ==
    re_sub(sql, LAMBDA s, i : IF cs_at(s, i, "\\'") THEN i + 1 ELSE 0,
           LAMBDA s, i, j : "''")

(***************************************************************************)
(* Inputs                                                                   *)
(***************************************************************************)
\* the largest max_depth argument explored
MaxDepthBound == 2

MaxDepths == {1, MaxDepthBound}

\* max_depth: int = 50, the default of process_sql_file
DefaultMaxDepth == 50

\* recursion limits left to the resolver: none, a few frames, and as many as a
\* resolution can nest (five calls per trace entry: the projection's ref, the
\* child's projection, its ref, the parent walk, the parent's projection)
StackSmall == 2

StackAmple == 5 * MaxDepthBound + 1

StackLimits == {0, StackSmall, StackAmple}

ObjectName == "FCT_X"

SqlFileName == "fct_x"

\* DM ATOMIC rows as typed in the workbook, and a workbook without the sheet
DmSheet == << <<"t_a", "x">>, <<"T_A ", "Y">>, <<"T_B", "p">>, <<" t_c", "z">>, <<"", "w">> >>

DmSheets == {DmSheet, <<>>}

\* SELECT a.x AS v, y, SYSDATE AS d FROM T_A a
\*   LEFT OUTER JOIN (SELECT p FROM T_B) j ON a.x = j.p AND a.y = 1
JoinStatement ==
    Select(<<>>, <<Alias("a.x", "v"), Column("", "y"), Alias("SYSDATE", "d")>>,
           Table("T_A", "a"),
           <<Join(Subquery(Select(<<>>, <<Column("", "p")>>, Table("T_B", ""), <<>>), "j"),
                  "LEFT", "OUTER",
                  And(EQ(Column("a", "x"), Column("j", "p")), EQ(Column("a", "y"), Expr("1"))))>>)

\* SELECT b AS a, a AS b FROM T_A
CycleStatement == Select(<<>>, <<Alias("b", "a"), Alias("a", "b")>>, Table("T_A", ""), <<>>)

\* SELECT s.x AS z FROM (SELECT z AS x) s
PingPongStatement ==
    Select(<<>>, <<Alias("s.x", "z")>>,
           Subquery(Select(<<>>, <<Alias("z", "x")>>, NoFrom, <<>>), "s"), <<>>)

\* SELECT s1.x FROM (SELECT s2.x FROM (SELECT a.x FROM T_A a) s2) s1
QualifiedChain ==
    Select(<<>>, <<Column("s1", "x")>>,
           Subquery(Select(<<>>, <<Column("s2", "x")>>,
                           Subquery(Select(<<>>, <<Column("a", "x")>>, Table("T_A", "a"), <<>>),
                                    "s2"), <<>>),
                    "s1"), <<>>)

\* SELECT x FROM (SELECT x FROM (SELECT x FROM T_A) s2) s1
IdentityChain ==
    Select(<<>>, <<Column("", "x")>>,
           Subquery(Select(<<>>, <<Column("", "x")>>,
                           Subquery(Select(<<>>, <<Column("", "x")>>, Table("T_A", ""), <<>>),
                                    "s2"), <<>>),
                    "s1"), <<>>)

\* SELECT x AS v FROM T_A UNION SELECT p AS w FROM T_B
Union2 ==
    Union(Select(<<>>, <<Alias("x", "v")>>, Table("T_A", ""), <<>>),
          Select(<<>>, <<Alias("p", "w")>>, Table("T_B", ""), <<>>))

\* SELECT x AS v FROM T_A UNION SELECT p AS v FROM T_B UNION SELECT z AS v FROM T_C
Union3 ==
    Union(Union(Select(<<>>, <<Alias("x", "v")>>, Table("T_A", ""), <<>>),
                Select(<<>>, <<Alias("p", "v")>>, Table("T_B", ""), <<>>)),
          Select(<<>>, <<Alias("z", "v")>>, Table("T_C", ""), <<>>))

\* SELECT * FROM T_A UNION SELECT p, q FROM T_B
StarUnion ==
    Union(Select(<<>>, <<Star>>, Table("T_A", ""), <<>>),
          Select(<<>>, <<Column("", "p"), Column("", "q")>>, Table("T_B", ""), <<>>))

\* WITH c1 AS (SELECT x, 'k' AS k FROM T_A) SELECT c1.x, k FROM c1
CteStatement ==
    Select(<<CTE("c1", Select(<<>>, <<Column("", "x"), Alias("'k'", "k")>>,
                              Table("T_A", ""), <<>>))>>,
           <<Column("c1", "x"), Column("", "k")>>, Table("c1", ""), <<>>)

\* SELECT a.x AS v FROM T_A a, mapped through a scalar subquery expression
ScalarStatement == Select(<<>>, <<Alias("a.x", "v")>>, Table("T_A", "a"), <<>>)

\* SELECT a.x FROM T_A a
\*   INNER JOIN T_B b ON a.x = b.p AND a.y = b.q AND b.p > 1
MultiKeyJoin ==
    Select(<<>>, <<Column("a", "x")>>, Table("T_A", "a"),
           <<Join(Table("T_B", "b"), "", "INNER",
                  And(And(EQ(Column("a", "x"), Column("b", "p")),
                          EQ(Column("a", "y"), Column("b", "q"))),
                      Predicate("b.p > 1")))>>)

\* SELECT s.x FROM (SELECT a.x FROM T_A a LEFT JOIN T_B b ON a.x = b.p) s
\*   INNER JOIN T_C a ON s.x = a.z AND a.z > 0
NestedJoin ==
    Select(<<>>, <<Column("s", "x")>>,
           Subquery(Select(<<>>, <<Column("a", "x")>>, Table("T_A", "a"),
                           <<Join(Table("T_B", "b"), "LEFT", "",
                                  EQ(Column("a", "x"), Column("b", "p")))>>),
                    "s"),
           <<Join(Table("T_C", "a"), "", "INNER",
                  And(EQ(Column("s", "x"), Column("a", "z")), Predicate("a.z > 0")))>>)

\* SELECT a.x FROM T_A a INNER JOIN T_B b ON a.x = b.p OR b.p > 1
TopOrJoin ==
    Select(<<>>, <<Column("a", "x")>>, Table("T_A", "a"),
           <<Join(Table("T_B", "b"), "", "INNER",
                  Or(EQ(Column("a", "x"), Column("b", "p")), Predicate("b.p > 1")))>>)

\* SELECT a.x FROM T_A a INNER JOIN T_B b ON b.p > 1
FilterOnlyJoin ==
    Select(<<>>, <<Column("a", "x")>>, Table("T_A", "a"),
           <<Join(Table("T_B", "b"), "", "INNER", Predicate("b.p > 1"))>>)

\* WITH c1 AS (SELECT x FROM c1) SELECT x FROM c1
SelfCte ==
    Select(<<CTE("c1", Select(<<>>, <<Column("", "x")>>, Table("c1", ""), <<>>))>>,
           <<Column("", "x")>>, Table("c1", ""), <<>>)

\* WITH c1 AS (SELECT x FROM c2), c2 AS (SELECT x FROM c1) SELECT x FROM c2
MutualCte ==
    Select(<<CTE("c1", Select(<<>>, <<Column("", "x")>>, Table("c2", ""), <<>>)),
             CTE("c2", Select(<<>>, <<Column("", "x")>>, Table("c1", ""), <<>>))>>,
           <<Column("", "x")>>, Table("c2", ""), <<>>)

\* SELECT a.x FROM T_A a INNER JOIN T_B b ON a.x = z.p
UnknownAliasJoin ==
    Select(<<>>, <<Column("a", "x")>>, Table("T_A", "a"),
           <<Join(Table("T_B", "b"), "", "INNER",
                  EQ(Column("a", "x"), Column("z", "p")))>>)

\* SELECT a.y AS v FROM T_A a
\*   INNER JOIN (SELECT p AS x FROM T_B) s ON a.y = s.x
\*   INNER JOIN (SELECT z AS x FROM T_C) r ON a.y = r.x
TableAndSubqueries ==
    Select(<<>>, <<Alias("a.y", "v")>>, Table("T_A", "a"),
           <<Join(Subquery(Select(<<>>, <<Alias("p", "x")>>, Table("T_B", ""), <<>>), "s"),
                  "", "INNER", EQ(Column("a", "y"), Column("s", "x"))),
             Join(Subquery(Select(<<>>, <<Alias("z", "x")>>, Table("T_C", ""), <<>>), "r"),
                  "", "INNER", EQ(Column("a", "y"), Column("r", "x")))>>)

\* SELECT r.* FROM (SELECT x FROM T_A) s CROSS JOIN (SELECT x FROM T_B) r
OriginSecond ==
    Select(<<>>, <<TableStar("r")>>,
           Subquery(Select(<<>>, <<Column("", "x")>>, Table("T_A", ""), <<>>), "s"),
           <<Join(Subquery(Select(<<>>, <<Column("", "x")>>, Table("T_B", ""), <<>>), "r"),
                  "", "CROSS", NoOn)>>)

\* SELECT x FROM (SELECT x FROM T_A) s CROSS JOIN (SELECT x FROM T_B) r
NoOrigin ==
    Select(<<>>, <<Column("", "x")>>,
           Subquery(Select(<<>>, <<Column("", "x")>>, Table("T_A", ""), <<>>), "s"),
           <<Join(Subquery(Select(<<>>, <<Column("", "x")>>, Table("T_B", ""), <<>>), "r"),
                  "", "CROSS", NoOn)>>)

\* SELECT r.* FROM (SELECT x FROM T_A) s CROSS JOIN (SELECT x) r
OriginEmpty ==
    Select(<<>>, <<TableStar("r")>>,
           Subquery(Select(<<>>, <<Column("", "x")>>, Table("T_A", ""), <<>>), "s"),
           <<Join(Subquery(Select(<<>>, <<Column("", "x")>>, NoFrom, <<>>), "r"),
                  "", "CROSS", NoOn)>>)

\* WITH c1 AS (SELECT x FROM c2), c2 AS (SELECT x FROM T_A) SELECT x FROM c1
ForwardCte ==
    Select(<<CTE("c1", Select(<<>>, <<Column("", "x")>>, Table("c2", ""), <<>>)),
             CTE("c2", Select(<<>>, <<Column("", "x")>>, Table("T_A", ""), <<>>))>>,
           <<Column("", "x")>>, Table("c1", ""), <<>>)

\* SELECT a.x FROM (SELECT a.x FROM T_B b) a
SelfAlias ==
    Select(<<>>, <<Column("a", "x")>>,
           Subquery(Select(<<>>, <<Column("a", "x")>>, Table("T_B", "b"), <<>>), "a"), <<>>)

\* SELECT a.x FROM (SELECT a.p AS x FROM T_B b) a
SelfAliasColumn ==
    Select(<<>>, <<Column("a", "x")>>,
           Subquery(Select(<<>>, <<Alias("a.p", "x")>>, Table("T_B", "b"), <<>>), "a"), <<>>)

\* SELECT s.v FROM (SELECT x + X + y AS v FROM T_A) s
SiblingProjection ==
    Select(<<>>, <<Column("s", "v")>>,
           Subquery(Select(<<>>, <<Alias("x + X + y", "v")>>, Table("T_A", ""), <<>>), "s"), <<>>)

\* T_A UNPIVOT (v FOR k IN (x, y))
UnpivotSource ==
    PivotTable("T_A", "", <<Pivot(TRUE, <<Column("", "v")>>, <<In(Column("", "k"))>>)>>)

\* SELECT v AS w, k AS j FROM T_A UNPIVOT (v FOR k IN (x, y))
UnpivotAliased ==
    Select(<<>>, <<Alias("v", "w"), Alias("k", "j")>>, UnpivotSource, <<>>)

\* SELECT v, k FROM T_A UNPIVOT (v FOR k IN (x, y))
UnpivotBare ==
    Select(<<>>, <<Column("", "v"), Column("", "k")>>, UnpivotSource, <<>>)

\* WITH c1 AS (SELECT a.x FROM T_A a INNER JOIN T_B b ON a.x = b.p)
\*   SELECT c1.x FROM c1
CteJoin ==
    Select(<<CTE("c1", Select(<<>>, <<Column("a", "x")>>, Table("T_A", "a"),
                              <<Join(Table("T_B", "b"), "", "INNER",
                                     EQ(Column("a", "x"), Column("b", "p")))>>))>>,
           <<Column("c1", "x")>>, Table("c1", ""), <<>>)

\* SELECT s.x FROM (SELECT a.x FROM T_A a INNER JOIN T_B b ON a.x = b.p) s
\*   UNION SELECT z FROM T_C
UnionSubqueryJoin ==
    Union(Select(<<>>, <<Column("s", "x")>>,
                 Subquery(Select(<<>>, <<Column("a", "x")>>, Table("T_A", "a"),
                                 <<Join(Table("T_B", "b"), "", "INNER",
                                        EQ(Column("a", "x"), Column("b", "p")))>>),
                          "s"), <<>>),
          Select(<<>>, <<Column("", "z")>>, Table("T_C", ""), <<>>))

Expression(target, expr) == MappingRow("fct", target, "EXPRESSION", "", expr)

Direct(target, source_table, source_column) ==
    MappingRow("fct", target, source_table, source_column, "")

\* a parsed statement and the mapping rows of its object, as typed
Scenarios ==
    << [ast |-> JoinStatement,
        rows |-> <<Direct("c1", "t_a", " x "), Direct("c2", "a", "y"),
                   Expression("c3", "nvl(v, 0) + sysdate"), Expression("c4", "sysdate")>>],
       [ast |-> CycleStatement,
        rows |-> <<Expression("c1", "a"), Expression("c2", "A + b")>>],
       [ast |-> PingPongStatement,
        rows |-> <<Expression("c1", "z"), Direct("c2", "s", "x"), Expression("c3", "1 + 2")>>],
       [ast |-> QualifiedChain, rows |-> <<Expression("c1", "s1.x"), Direct("c2", "T_Q", "q")>>],
       [ast |-> IdentityChain, rows |-> <<Expression("c1", "x")>>],
       [ast |-> Union2, rows |-> <<Expression("c1", "v")>>],
       [ast |-> Union3, rows |-> <<Expression("c1", "v")>>],
       [ast |-> StarUnion, rows |-> <<Expression("c1", "x"), Expression("c2", "y")>>],
       [ast |-> CteStatement, rows |-> <<Expression("c1", "c1.x"), MappingRow("fct", "k", "", "", "")>>],
       [ast |-> ScalarStatement,
        rows |-> <<Expression("c1", "nvl(" \o ScalarSql \o ", v)")>>],
       [ast |-> MultiKeyJoin, rows |-> <<Expression("c1", "a.x")>>],
       [ast |-> NestedJoin, rows |-> <<Expression("c1", "s.x")>>],
       [ast |-> TopOrJoin, rows |-> <<Expression("c1", "a.x")>>],
       [ast |-> FilterOnlyJoin, rows |-> <<Expression("c1", "a.x")>>],
       [ast |-> SelfCte, rows |-> <<Expression("c1", "x")>>],
       [ast |-> MutualCte, rows |-> <<Expression("c1", "x")>>],
       [ast |-> UnknownAliasJoin,
        rows |-> <<Expression("c1", "a.x"), Expression("c2", "z.p"), Expression("c3", "a.x"),
                   Expression("c4", "a.x"), Expression("c5", "a.x")>>],
       [ast |-> UnknownAliasJoin,
        rows |-> <<Expression("c1", "a.x"), Expression("c2", "z.p"), Expression("c3", "a.x"),
                   Expression("c4", "a.x")>>],
       [ast |-> UnknownAliasJoin, rows |-> <<>>],
       [ast |-> TableAndSubqueries, rows |-> <<Expression("c1", "x"), Expression("c2", "y")>>],
       [ast |-> OriginSecond, rows |-> <<Expression("c1", "x")>>],
       [ast |-> NoOrigin, rows |-> <<Expression("c1", "x"), Expression("c2", "x + X")>>],
       [ast |-> OriginEmpty, rows |-> <<Expression("c1", "x")>>],
       [ast |-> ForwardCte, rows |-> <<Expression("c1", "x")>>],
       [ast |-> SelfAlias, rows |-> <<Expression("c1", "a.x")>>],
       [ast |-> SelfAliasColumn, rows |-> <<Expression("c1", "a.x")>>],
       [ast |-> UnpivotAliased,
        rows |-> <<Expression("c1", "v"), Expression("c2", "k"), Expression("c3", "w")>>],
       [ast |-> UnpivotBare, rows |-> <<Expression("c1", "v"), Expression("c2", "k")>>],
       [ast |-> CteJoin, rows |-> <<Expression("c1", "c1.x")>>],
       [ast |-> UnionSubqueryJoin, rows |-> <<Expression("c1", "x")>>],
       [ast |-> SiblingProjection, rows |-> <<Expression("c1", "s.v")>>] >>

\* the statements whose resolution is also run with little stack left
StackScenarios == {1, 3, 4}

\* the statement whose resolution only the depth guard ends, five calls per
\* trace entry: it is run with the max_depth values below
DepthBoundScenarios == {3}

ShallowDepths == {1, 2}

Inputs ==
    {in \in [sc : 1..Len(Scenarios), dm : DmSheets, md : MaxDepths \cup {DefaultMaxDepth},
             limit : StackLimits] :
        /\ in.limit = StackAmple \/ (in.sc \in StackScenarios /\ in.dm = DmSheet)
        /\ in.sc \in DepthBoundScenarios => in.md \in ShallowDepths}

\* the orders in which the columns of a set of str may be iterated
Perms(S) ==
    {p \in [1..Cardinality(S) -> S] : \A i, j \in 1..Cardinality(S) : p[i] = p[j] => i = j}

SetOrders(d) == {o \in [DOMAIN d -> UNION {Perms(d[t]) : t \in DOMAIN d}] :
                    \A t \in DOMAIN d : o[t] \in Perms(d[t])}

Env == [G |-> tree, dm |-> DmDict(dm_dict), order |-> set_order,
        max_depth |-> max_depth, limit |-> stack_limit]

NoLast == [kind |-> "none", row |-> MappingRow("", "", "", "", ""), expr |-> "",
           res |-> <<>>, log |-> <<>>, l1exc |-> FALSE, exc |-> FALSE, new_edges |-> <<>>]

\* no orchestrator run and no task
NoPipeline ==
    /\ state_file = <<>>
    /\ state = <<>>
    /\ orch_pc = "idle"
    /\ phase_i = 0
    /\ succeeded = {}
    /\ approved = {}

(***************************************************************************)
(* process_sql_file, after load_doc_support                                 *)
(***************************************************************************)
Init ==
    \E in \in Inputs :
        /\ pc = "load"
        /\ sql_ast = Scenarios[in.sc].ast
        /\ mappings = Scenarios[in.sc].rows
        /\ dm_rows = in.dm
        /\ max_depth = in.md
        /\ stack_limit = in.limit
        /\ dm_dict = <<>>
        /\ set_order = <<>>
        /\ row_idx = 1
        /\ tree = <<>>
        /\ edges = <<>>
        /\ last = NoLast
        /\ warnings = <<>>
        /\ NoPipeline
        /\ sql_text = ""
        /\ sql_orig = ""

\* lines 490-503 of load_doc_support
normalize_mapping(row) ==
    MappingRow(call("normalize_identifier", <<safe_str(row.target_table)>>),
               call("normalize_identifier", <<safe_str(row.target_column)>>),
               row.source_table,
               normalize_expression(safe_str(row.source_column)),
               normalize_expression(safe_str(row.expression)))

\* load_doc_support: the mapping columns are normalized and the DM dictionary
\* is built from the DM sheet
load_doc_support(mapping_rows, dm_sheet) ==
    [mappings |-> [i \in 1..Len(mapping_rows) |-> call("normalize_mapping", <<mapping_rows[i]>>)],
     dm_dict  |-> call("build_dm_dictionary", <<dm_sheet>>)]

\* lines 3151-3226: one iteration of the row loop; the edges it appends
process_row(row, E) ==
    LET edges_of(expr, r) ==
            [kind |-> "row", row |-> row, expr |-> expr,
             res |-> r.res, log |-> r.log, l1exc |-> r.l1exc, exc |-> r.exc,
             new_edges |-> call("row_edges", <<row, r.res, ObjectName, E.dm, SqlFileName>>)]
    IN  edges_of(call("row_expression", <<row>>),
                 call("resolve_with_fallback", <<call("row_expression", <<row>>), 1, E>>))

\* the arguments of the logger.warning call of lines 3305-3307
Warning(unresolved, total, object_name) ==
    [msg |-> "HIGH UNRESOLVED RATE", unresolved |-> unresolved, total |-> total,
     object_name |-> object_name]

\* lines 3302-3304: total > 0 and (unresolved / total) * 100 > 20; the float
\* quotient of unresolved = total / 5 is the double 0.2, whose product with
\* 100 is 20.0 exactly
high_unresolved_rate_from_20(unresolved, total) ==
    total > 0 /\ unresolved * 100 >= 20 * total

high_unresolved_rate(unresolved, total) ==
    total > 0 /\ unresolved * 100 > 20 * total

\* lines 3283-3307: the check of the unresolved rate over the MAPPING edges
unresolved_rate_warnings(result_edges, object_name) ==
    LET mapping_edges == SelectSeq(result_edges, LAMBDA e : e.row_type = "MAPPING")
        total == Len(mapping_edges)
        unresolved == Len(SelectSeq(mapping_edges,
                                    LAMBDA e : e.source_type = "UNRESOLVED"))
    IN  IF high_unresolved_rate(unresolved, total)
        THEN <<Warning(unresolved, total, object_name)>>
        ELSE <<>>

\* lines 3228-3279: the joins of every scope are resolved in their own scope
\* and appended as JOIN edges; an exception of the resolver is not caught here
\* and ends process_sql_file before the statistics
process_joins(E) ==
    LET marked == [s \in 1..Len(E.G) |->
                     [E.G[s] EXCEPT !.joins =
                         [i \in 1..Len(@) |-> [@[i] EXCEPT !.sql_file = SqlFileName]]]]
        edges_of(r) ==
            [kind |-> "joins", row |-> MappingRow("", "", "", "", ""),
             expr |-> "", res |-> r.res, log |-> r.log, l1exc |-> FALSE,
             exc |-> r.exc, tree |-> marked,
             new_edges |-> IF r.exc THEN <<>>
                           ELSE [i \in 1..Len(r.res) |-> join_edge(r.res[i])]]
    IN  edges_of(call("explode_join_keys", <<collect_joins_with_scopes(1, marked), ObjectName,
                                   SqlFileName, [E EXCEPT !.G = marked]>>))


(***************************************************************************)
(* A Python call by name: call(fn, a) applies the function fn of the module *)
(* to the argument tuple a.                                                 *)
(***************************************************************************)
call(fn, a) ==
    CASE fn = "resolve_to_physical" -> resolve_to_physical(a[1], a[2], a[3], a[4], a[5], a[6], a[7])
      [] fn = "resolve_expression" -> resolve_expression(a[1], a[2], a[3], a[4], a[5], a[6], a[7])
      [] fn = "build_scope_tree" -> build_scope_tree(a[1], a[2], a[3], a[4], a[5], a[6])
      [] fn = "resolve_with_fallback" -> resolve_with_fallback(a[1], a[2], a[3])
      [] fn = "resolve_union" -> resolve_union(a[1], a[2], a[3], a[4], a[5], a[6], a[7], a[8])
      [] fn = "resolve_qualified" -> resolve_qualified(a[1], a[2], a[3], a[4], a[5], a[6], a[7], a[8], a[9])
      [] fn = "resolve_unqualified" -> resolve_unqualified(a[1], a[2], a[3], a[4], a[5], a[6], a[7], a[8])
      [] fn = "resolve_identity" -> resolve_identity(a[1], a[2], a[3], a[4], a[5], a[6])
      [] fn = "trace_to_physical" -> trace_to_physical(a[1], a[2], a[3], a[4], a[5], a[6])
      [] fn = "resolve_scalar_subqueries" -> resolve_scalar_subqueries(a[1], a[2], a[3], a[4], a[5], a[6], a[7])
      [] fn = "resolve_partial" -> resolve_partial(a[1], a[2], a[3])
      [] fn = "explode_join_keys" -> explode_join_keys(a[1], a[2], a[3], a[4])
      [] fn = "_resolve_join_field" -> _resolve_join_field(a[1], a[2], a[3], a[4], a[5], a[6], a[7], a[8])
      [] fn = "_resolve_join_filters" -> _resolve_join_filters(a[1], a[2], a[3], a[4], a[5], a[6])
      [] fn = "find_relation_in_scope_chain" -> find_relation_in_scope_chain(a[1], a[2], a[3])
      [] fn = "extract_column_refs" -> extract_column_refs(a[1])
      [] fn = "parse_ref" -> parse_ref(a[1])
      [] fn = "is_constant" -> is_constant(a[1])
      [] fn = "is_identity" -> is_identity(a[1], a[2], a[3], a[4])
      [] fn = "register_projections" -> register_projections(a[1], a[2], a[3], a[4], a[5], a[6])
      [] fn = "_extract_scope_joins" -> _extract_scope_joins(a[1], a[2])
      [] fn = "_register_from_sources" -> _register_from_sources(a[1], a[2], a[3], a[4], a[5], a[6])
      [] fn = "_parse_join_condition" -> _parse_join_condition(a[1])
      [] fn = "create_direct_mapping_edge" -> create_direct_mapping_edge(a[1], a[2], a[3], a[4])
      [] fn = "row_edges" -> row_edges(a[1], a[2], a[3], a[4], a[5])
      [] fn = "normalize_mapping" -> normalize_mapping(a[1])
      [] fn = "build_dm_dictionary" -> build_dm_dictionary(a[1])
      [] fn = "normalize_identifier" -> normalize_identifier(a[1])
      [] fn = "_merge_union_projections" -> _merge_union_projections(a[1], a[2])
      [] fn = "row_expression" -> row_expression(a[1])
      [] fn = "is_direct_mapping" -> is_direct_mapping(a[1])
      [] fn = "load_doc_support" -> load_doc_support(a[1], a[2])
      [] fn = "process_row" -> process_row(a[1], a[2])
      [] fn = "process_joins" -> process_joins(a[1])

(***************************************************************************)
(* The steps of process_sql_file.  load_doc_support: the sets of the DM     *)
(* dictionary get the iteration order they keep for the run.               *)
(***************************************************************************)
LoadDocSupport ==
    /\ pc = "load"
    /\ LET store(doc) ==
            /\ mappings' = doc.mappings
            /\ dm_dict' = doc.dm_dict
            /\ set_order' \in SetOrders(doc.dm_dict)
       IN  store(call("load_doc_support", <<mappings, dm_rows>>))
    /\ pc' = "build"
    /\ UNCHANGED <<sql_ast, dm_rows, max_depth, stack_limit, row_idx, tree, edges, last,
                   warnings, sql_text, sql_orig, orch_vars>>

\* line 3145
BuildScopeTree ==
    /\ pc = "build"
    /\ tree' = call("build_scope_tree", <<sql_ast, "ROOT", None, DmDict(dm_dict), set_order, <<>>>>).g
    /\ pc' = "rows"
    /\ UNCHANGED <<sql_ast, dm_rows, dm_dict, set_order, max_depth, stack_limit, mappings,
                   row_idx, edges, last, warnings, sql_text, sql_orig, orch_vars>>

ProcessRow ==
    /\ pc = "rows"
    /\ row_idx <= Len(mappings)
    /\ LET store(r) ==
            /\ edges' = edges \o r.new_edges
            /\ last' = r
       IN  store(call("process_row", <<mappings[row_idx], Env>>))
    /\ row_idx' = row_idx + 1
    /\ UNCHANGED <<pc, sql_ast, dm_rows, dm_dict, set_order, max_depth, stack_limit,
                   mappings, tree, warnings, sql_text, sql_orig, orch_vars>>

ProcessJoins ==
    /\ pc = "rows"
    /\ row_idx > Len(mappings)
    /\ LET store(r) ==
            /\ tree' = r.tree
            /\ edges' = edges \o r.new_edges
            /\ pc' = IF r.exc THEN "raised" ELSE "done"
            /\ warnings' = IF r.exc THEN warnings
                            ELSE warnings \o unresolved_rate_warnings(edges \o r.new_edges,
                                                                       ObjectName)
            /\ last' = [x \in DOMAIN r \ {"tree"} |-> r[x]]
       IN  store(call("process_joins", <<Env>>))
    /\ UNCHANGED <<sql_ast, dm_rows, dm_dict, set_order, max_depth, stack_limit, mappings,
                   row_idx, sql_text, sql_orig, orch_vars>>

Next == LoadDocSupport \/ BuildScopeTree \/ ProcessRow \/ ProcessJoins

Spec == Init /\ [][Next]_vars

(***************************************************************************)
(* normalize_sql, statement by statement                                    *)
(***************************************************************************)
NBSP == CHOOSE c \in UnicodeSpaces : TRUE

\* SQL texts handed to normalize_sql: each holds a single-quoted literal
NormInputs == {
    "SELECT 'a''b' FROM t",
    "SELECT 'a--b' x",
    "SELECT '/*k*/' x",
    "SELECT '$V' x",
    "SELECT '[PERIMETER]'",
    "SELECT 'a  b' x",
    "SELECT 'x AS x'",
    "SELECT a --c\n, 'k'",
    "a || ~ || 'b'/*c*/",
    "SELECT $MISDATE, 'd'",
    "SELECT $V x, c AS c",
    "x = 'it\\'s'",
    ESC \o "[0mSELECT 'a'",
    "esc[1;2mSELECT 'e'",
    "SELECT" \o NBSP \o NBSP \o "'u' x",
    "[vartechsrc] || '~'",
    "a /*'*/ 'b--' --'\n c",
    "'/*' x /*/ y",
    "'a''--' -- ''\n/**/b-/" }

InitNorm ==
    /\ pc = "strip_ansi"
    /\ sql_orig \in NormInputs
    /\ sql_text = sql_orig
    /\ sql_ast = None
    /\ mappings = <<>>
    /\ dm_rows = <<>>
    /\ max_depth = 0
    /\ stack_limit = 0
    /\ dm_dict = <<>>
    /\ set_order = <<>>
    /\ row_idx = 1
    /\ tree = <<>>
    /\ edges = <<>>
    /\ last = NoLast
    /\ warnings = <<>>
    /\ NoPipeline

\* the variables normalize_sql leaves alone
not_sql == <<sql_ast, dm_rows, dm_dict, set_order, max_depth, stack_limit, mappings,
             row_idx, tree, edges, last, warnings, sql_orig, orch_vars>>

\* lines 721-725
StripAnsi ==
    /\ pc = "strip_ansi"
    /\ sql_text' = strip_ansi(sql_text)
    /\ pc' = "unicode_spaces"
    /\ UNCHANGED not_sql

\* line 730
ReplaceUnicodeSpaces ==
    /\ pc = "unicode_spaces"
    /\ sql_text' = replace_unicode_spaces(sql_text)
    /\ pc' = "placeholders"
    /\ UNCHANGED not_sql

\* lines 734-735
ReplacePlaceholders ==
    /\ pc = "placeholders"
    /\ sql_text' = replace_placeholders(sql_text)
    /\ pc' = "quoted_vars"
    /\ UNCHANGED not_sql

\* line 741
ReplaceQuotedVars ==
    /\ pc = "quoted_vars"
    /\ sql_text' = replace_quoted_vars(sql_text)
    /\ pc' = "date_vars"
    /\ UNCHANGED not_sql

\* line 747
ReplaceDateVars ==
    /\ pc = "date_vars"
    /\ sql_text' = replace_date_vars(sql_text)
    /\ pc' = "vars"
    /\ UNCHANGED not_sql

\* line 752
ReplaceVars ==
    /\ pc = "vars"
    /\ sql_text' = replace_vars(sql_text)
    /\ pc' = "tilde"
    /\ UNCHANGED not_sql

\* line 758
FixTilde ==
    /\ pc = "tilde"
    /\ sql_text' = fix_tilde(sql_text)
    /\ pc' = "double_alias"
    /\ UNCHANGED not_sql

\* line 764
FixDoubleAlias ==
    /\ pc = "double_alias"
    /\ sql_text' = fix_double_alias(sql_text)
    /\ pc' = "backslash_quotes"
    /\ UNCHANGED not_sql

\* line 768
NormalizeBackslashQuotes ==
    /\ pc = "backslash_quotes"
    /\ sql_text' = normalize_backslash_quotes(sql_text)
    /\ pc' = "strip_comments"
    /\ UNCHANGED not_sql

\* line 772
StripComments ==
    /\ pc = "strip_comments"
    /\ sql_text' = strip_comments(sql_text)
    /\ pc' = "normalize_whitespace"
    /\ UNCHANGED not_sql

\* lines 776-777
NormalizeWhitespace ==
    /\ pc = "normalize_whitespace"
    /\ sql_text' = normalize_whitespace(sql_text)
    /\ pc' = "returned"
    /\ UNCHANGED not_sql

NextNorm ==
    \/ StripAnsi
    \/ ReplaceUnicodeSpaces
    \/ ReplacePlaceholders
    \/ ReplaceQuotedVars
    \/ ReplaceDateVars
    \/ ReplaceVars
    \/ FixTilde
    \/ FixDoubleAlias
    \/ NormalizeBackslashQuotes
    \/ StripComments
    \/ NormalizeWhitespace

SpecNorm == InitNorm /\ [][NextNorm]_vars

(***************************************************************************)
(* The SDLC orchestrator: run_pipeline of orchestrator.py, for one task     *)
(***************************************************************************)
\* class Phase: the values of the phases that are executed, in order
PhaseValues == <<"requirements", "architecture", "implementation", "security", "qa">>

PhaseComplete == "complete"

\* class SecurityLevel, in definition order
SecurityLevels == <<"CRITICAL", "HIGH", "STANDARD", "LOW">>

\* the description of a task, as given on the command line
Descriptions == {"Add user authentication"}

TaskState(description, current_phase) ==
    [description |-> description, current_phase |-> current_phase,
     security_level |-> "", phases_completed |-> <<>>, error |-> ""]

\* lines 690-695, with the index of the phase after the saved one
start_index_after(current_phase) ==
    LET found == {i \in 1..Len(PhaseValues) : PhaseValues[i] = current_phase}
    IN  IF found = {} \/ found = {Len(PhaseValues)} THEN 1
        ELSE (CHOOSE i \in found : \A j \in found : i <= j) + 1

\* lines 690-695: the index of the saved current_phase among the phases, the
\* first phase when it is none of them (as for "complete")
start_index(current_phase) ==
    LET found == {i \in 1..Len(PhaseValues) : PhaseValues[i] = current_phase}
    IN  IF found = {} THEN 1 ELSE CHOOSE i \in found : \A j \in found : i <= j

\* the answers typed at the prompt of ask_continue
Responses == {"y", " Yes ", "n", "NO", "review", ""}

\* lines 637-649 of ask_continue: "yes", "no", or "again" for another prompt
ask_continue(response) ==
    IF str_lower(strip(response)) \in {"y", "yes"} THEN "yes"
    ELSE IF str_lower(strip(response)) \in {"n", "no"} THEN "no"
    ELSE "again"

\* lines 466-473 of execute_requirements: the level found in the output,
\* else the level the state has, else STANDARD
security_level_of(found, old) ==
    IF found # "" THEN found ELSE IF old # "" THEN old ELSE "STANDARD"

InitOrch ==
    /\ NoPipeline
    /\ pc = "none"
    /\ sql_ast = None
    /\ mappings = <<>>
    /\ dm_rows = <<>>
    /\ max_depth = 0
    /\ stack_limit = 0
    /\ dm_dict = <<>>
    /\ set_order = <<>>
    /\ row_idx = 1
    /\ tree = <<>>
    /\ edges = <<>>
    /\ last = NoLast
    /\ warnings = <<>>
    /\ sql_text = ""
    /\ sql_orig = ""

\* the phases of the loop of lines 698-720
PhaseCount == Len(PhaseValues)

\* what a phase executor tells run_pipeline: success, or failure with
\* state.error set; execute_requirements also sets state.security_level
\* or an exception that ends the run (get_prompt: FileNotFoundError)
Outcomes ==
    {[success |-> TRUE, found |-> "", raised |-> FALSE],
     [success |-> FALSE, found |-> "", raised |-> FALSE],
     [success |-> FALSE, found |-> "", raised |-> TRUE]}
    \cup {[success |-> TRUE, found |-> SecurityLevels[k], raised |-> FALSE] :
             k \in 1..Len(SecurityLevels)}

\* lines 660-695 without --resume: a new task is saved and the loop starts
\* at its current_phase, the first phase
NewTask ==
    /\ orch_pc = "idle"
    /\ state_file = <<>>
    /\ \E description \in Descriptions :
          LET s == TaskState(description, PhaseValues[1])
          IN  /\ state' = <<s>>
              /\ state_file' = <<s>>
              /\ phase_i' = start_index(s.current_phase)
    /\ orch_pc' = "loop"
    /\ UNCHANGED <<succeeded, approved, lineage_vars>>

\* lines 660-695 with --resume: the saved state is loaded and saved, and the
\* loop starts at its current_phase; a task that is not found ends the run
Resume ==
    /\ orch_pc = "idle"
    /\ state_file # <<>>
    /\ state' = state_file
    /\ phase_i' = start_index(state_file[1].current_phase)
    /\ orch_pc' = "loop"
    /\ UNCHANGED <<state_file, succeeded, approved, lineage_vars>>

\* lines 698-705: the phase becomes the current phase, the state is saved and
\* the executor is called
StartPhase ==
    /\ orch_pc = "loop"
    /\ phase_i <= PhaseCount
    /\ state' = <<[state[1] EXCEPT !.current_phase = PhaseValues[phase_i]]>>
    /\ state_file' = state'
    /\ orch_pc' = "executor"
    /\ UNCHANGED <<phase_i, succeeded, approved, lineage_vars>>

\* lines 705-715: the executor returns or raises; after a failure the state
\* is saved and the run ends, after a success the phase is marked complete, the state
\* is saved and the gate follows (except after the last phase)
ExecutorReturns ==
    /\ orch_pc = "executor"
    /\ \E out \in Outcomes :
          /\ out.found # "" => phase_i = 1
          /\ IF ~out.success
             THEN /\ state' = <<>>
                  /\ state_file' = IF out.raised THEN state_file
                                   ELSE <<[state[1] EXCEPT !.error = "failed"]>>
                  /\ orch_pc' = "idle"
                  /\ phase_i' = 0
                  /\ succeeded' = succeeded
             ELSE LET levelled ==
                          IF phase_i = 1
                          THEN [state[1] EXCEPT !.security_level =
                                                    security_level_of(out.found, @)]
                          ELSE state[1]
                      completed ==
                          IF \E k \in 1..Len(levelled.phases_completed) :
                                levelled.phases_completed[k] = PhaseValues[phase_i]
                          THEN levelled
                          ELSE [levelled EXCEPT !.phases_completed =
                                                    Append(@, PhaseValues[phase_i])]
                  IN  /\ state' = <<completed>>
                      /\ state_file' = <<completed>>
                      /\ orch_pc' = IF phase_i < PhaseCount THEN "gate" ELSE "loop"
                      /\ phase_i' = IF phase_i < PhaseCount THEN phase_i ELSE phase_i + 1
                      /\ succeeded' = succeeded \cup {PhaseValues[phase_i]}
    /\ UNCHANGED <<approved, lineage_vars>>

\* lines 717-720 with ask_continue: yes goes on to the next phase, no ends
\* the run, anything else asks again
AskContinue ==
    /\ orch_pc = "gate"
    /\ \E response \in Responses :
          /\ orch_pc' = CASE ask_continue(response) = "yes" -> "loop"
                           [] ask_continue(response) = "no" -> "idle"
                           [] OTHER -> "gate"
          /\ phase_i' = CASE ask_continue(response) = "yes" -> phase_i + 1
                           [] ask_continue(response) = "no" -> 0
                           [] OTHER -> phase_i
          /\ state' = IF ask_continue(response) = "no" THEN <<>> ELSE state
          /\ approved' = IF ask_continue(response) = "yes"
                         THEN approved \cup {PhaseValues[phase_i]} ELSE approved
    /\ UNCHANGED <<state_file, succeeded, lineage_vars>>

\* lines 722-724: after the last phase the state becomes complete and is
\* saved
Complete ==
    /\ orch_pc = "loop"
    /\ phase_i > PhaseCount
    /\ state_file' = <<[state[1] EXCEPT !.current_phase = PhaseComplete]>>
    /\ state' = <<>>
    /\ orch_pc' = "idle"
    /\ phase_i' = 0
    /\ UNCHANGED <<succeeded, approved, lineage_vars>>

NextOrch == NewTask \/ Resume \/ StartPhase \/ ExecutorReturns \/ AskContinue \/ Complete

SpecOrch == InitOrch /\ [][NextOrch]_vars

(***************************************************************************)
(* Properties of the resolver                                               *)
(***************************************************************************)
\* the resolve_to_physical frames entered for the row (or the joins)
\* processed last
Frames == {last.log[i] : i \in 1..Len(last.log)}

Results == {last.res[i] : i \in 1..Len(last.res)}

\* what a recursive call changed with respect to the frame that made it
TraceGrew(f) == f.tlen > f.caller.tlen

MovedToParent(f) ==
    /\ f.caller.scope \in 1..Len(tree)
    /\ f.scope = tree[f.caller.scope].parent

VisitedGrew(f) == f.caller.visited \subseteq f.visited /\ f.visited # f.caller.visited

\* C1: every resolve_to_physical call made from another one either has a
\* longer trace, or is in the parent scope, or has a strictly larger visited
\* set; and with the stack a resolution bounded by max_depth needs, no call
\* runs out of frames: the resolution ends without RecursionError.
C1_ResolutionTerminates ==
    /\ \A f \in Frames :
          f.caller.scope # None => TraceGrew(f) \/ MovedToParent(f) \/ VisitedGrew(f)
    /\ stack_limit = StackAmple =>
          /\ ~last.exc /\ ~last.l1exc
          /\ \A f \in Frames : ~f.exc /\ f.frames <= StackAmple

\* a child descent that reset the visited set, in a resolution that only the
\* depth guard ended
C1_Witness ==
    /\ stack_limit = StackAmple
    /\ last.kind = "row"
    /\ \E f \in Frames :
          /\ f.caller.scope # None
          /\ TraceGrew(f)
          /\ f.visited = {}
          /\ f.caller.visited # {}
    /\ \E r \in Results : r.reason = "DEPTH_GUARD"

PartialFailure(ref) ==
    ResolvedColumn("UNRESOLVED", "", ref, "", "", "PARTIAL_FAILURE", "N", "", "")

CompleteFailure(expr) ==
    ResolvedColumn("UNRESOLVED", "", "", expr, "", "COMPLETE_FAILURE", "N", "", "")

RECURSIVE OneByOne(_, _)
OneByOne(refs, E) ==
    IF refs = <<>> THEN <<>>
    ELSE LET r == call("resolve_to_physical", <<refs[1], 1, {}, <<E.G[1].name>>, 1, NoCaller, E>>)
         IN  (IF r.exc THEN <<PartialFailure(refs[1])>> ELSE r.res)
             \o OneByOne(Tail(refs), E)

\* C2: resolve_with_fallback raises nothing and returns a non-empty list: the
\* resolution of the whole expression when that is non-empty; otherwise the
\* resolutions of its references one by one, a reference whose resolution
\* raises giving one PARTIAL_FAILURE; and when that is empty too, exactly one
\* COMPLETE_FAILURE carrying the expression.
C2_FallbackTotal ==
    last.kind = "row" =>
        LET level1 == call("resolve_expression", <<last.expr, 1, {}, <<tree[1].name>>, 1, NoCaller, Env>>)
            level2 == OneByOne(call("extract_column_refs", <<last.expr>>), Env)
        IN  /\ ~last.exc
            /\ last.res # <<>>
            /\ last.res = IF ~level1.exc /\ level1.res # <<>> THEN level1.res
                          ELSE IF level2 # <<>> THEN level2
                          ELSE <<CompleteFailure(last.expr)>>

\* Level 1 raised and a reference was recorded as PARTIAL_FAILURE
C2_Witness ==
    /\ last.kind = "row"
    /\ last.l1exc
    /\ \E r \in Results : r.reason = "PARTIAL_FAILURE" /\ r.column # ""

InDm(table, column) ==
    /\ str_upper(table) \in DOMAIN dm_dict
    /\ str_upper(column) \in dm_dict[str_upper(table)]

\* C3: every PHYSICAL result and every PHYSICAL edge (mapping, direct-mapping
\* and join edges) has dm_match = Y exactly when its upper-cased column is in
\* the data model's set for its upper-cased table, and N otherwise.
C3_DmMatchSound ==
    /\ \A i \in 1..Len(edges) :
          edges[i].source_type = "PHYSICAL" =>
              edges[i].dm_match =
                  IF InDm(edges[i].source_table, edges[i].source_field) THEN "Y" ELSE "N"
    /\ \A r \in Results :
          r.source_type = "PHYSICAL" /\ last.kind = "row" =>
              r.dm_match = IF InDm(r.table, r.column) THEN "Y" ELSE "N"

\* all the edges are out: a direct-mapping edge, a resolved mapping edge and
\* a join edge, each matched in the data model
C3_Witness ==
    /\ pc = "done"
    /\ \E i, j, k \in 1..Len(edges) :
          /\ edges[i].trace_path = "DIRECT_MAPPING" /\ edges[i].dm_match = "Y"
          /\ edges[j].row_type = "JOIN" /\ edges[j].source_type = "PHYSICAL"
          /\ edges[j].dm_match = "Y"
          /\ edges[k].row_type = "MAPPING" /\ edges[k].source_type = "PHYSICAL"
          /\ edges[k].trace_path # "DIRECT_MAPPING" /\ edges[k].dm_match = "Y"

\* the scopes of the two chain statements, outermost first
ChainScopes == <<"ROOT", "ROOT/S1", "ROOT/S1/S2">>

\* C4: in a chain of nested scopes deeper than max_depth, the column passed
\* through every level resolves to DEPTH_GUARD results only, by qualified
\* references and by same-name projections alike.
C4_DepthGuardOnChains ==
    /\ sql_ast \in {QualifiedChain, IdentityChain}
    /\ Len(ChainScopes) > max_depth
    /\ last.kind = "row"
    /\ row_idx = 2
    /\ stack_limit = StackAmple
    => /\ last.res # <<>>
       /\ \A r \in Results : r.source_type = "UNRESOLVED" /\ r.reason = "DEPTH_GUARD"

\* C5: a call entered with its (scope, ref) key already visited returns one
\* CYCLE_DETECTED result with a non-empty trace and calls nothing; and for
\* SELECT b AS a, a AS b the resolution of a is non-empty and CYCLE_DETECTED
\* throughout.
C5_CycleGuard ==
    /\ \A f \in Frames :
          f.hit =>
              /\ Len(f.out) = 1
              /\ f.out[1].source_type = "UNRESOLVED"
              /\ f.out[1].reason = "CYCLE_DETECTED"
              /\ f.out[1].trace_path # ""
              /\ f.sub = 0
              /\ ~f.exc
    /\ sql_ast = CycleStatement /\ last.kind = "row" =>
          /\ last.res # <<>>
          /\ \A r \in Results : r.source_type = "UNRESOLVED" /\ r.reason = "CYCLE_DETECTED"

\* the row a of the circular statement has been resolved
C5_Witness ==
    /\ sql_ast = CycleStatement
    /\ last.kind = "row"
    /\ last.expr = "A"
    /\ \E f \in Frames : f.hit

PhysicalSources == {<<r.table, r.column>> : r \in {x \in Results : x.source_type = "PHYSICAL"}}

\* C6: the output column of a UNION of k branches resolves to the sources of
\* the projection at its position in every one of the k branches, for k = 2
\* with differently named projections and for k = 3 alike: no branch is lost
\* (with the data model that holds the branches' columns, and max_depth at
\* its default, so that the depth guard ends no branch).
C6_UnionAllBranches ==
    /\ sql_ast \in {Union2, Union3}
    /\ dm_rows = DmSheet
    /\ max_depth = DefaultMaxDepth
    /\ last.kind = "row"
    => PhysicalSources =
          IF sql_ast = Union2 THEN {<<"T_A", "X">>, <<"T_B", "P">>}
          ELSE {<<"T_A", "X">>, <<"T_B", "P">>, <<"T_C", "Z">>}

AllUnresolved == \A r \in Results : r.source_type = "UNRESOLVED"

\* C7: for a row classified as direct, when its resolution is Unresolved
\* throughout the row gives exactly one edge: a MAPPING edge of type PHYSICAL
\* with the declared source table and column, trace_path DIRECT_MAPPING and
\* dm_match as the data model has it; otherwise it gives one edge per result
\* and none of them is a DIRECT_MAPPING edge.
C7_DirectMappingFallback ==
    last.kind = "row" /\ call("is_direct_mapping", <<last.row>>) =>
        IF AllUnresolved
        THEN /\ Len(last.new_edges) = 1
             /\ LET e == last.new_edges[1]
                IN  /\ e.row_type = "MAPPING"
                    /\ e.source_type = "PHYSICAL"
                    /\ e.source_table = call("normalize_identifier", <<last.row.source_table>>)
                    /\ e.source_field = call("normalize_identifier", <<last.row.source_column>>)
                    /\ e.trace_path = "DIRECT_MAPPING"
                    /\ e.dm_match = IF InDm(e.source_table, e.source_field) THEN "Y" ELSE "N"
        ELSE /\ Len(last.new_edges) = Len(last.res)
             /\ \A i \in 1..Len(last.res) :
                   /\ last.new_edges[i].trace_path # "DIRECT_MAPPING"
                   /\ last.new_edges[i].source_type = last.res[i].source_type
                   /\ last.new_edges[i].source_table = last.res[i].table
                   /\ last.new_edges[i].source_field = last.res[i].column

\* a direct row whose source is not in the statement: the fallback edge is out
C7_Witness ==
    /\ last.kind = "row"
    /\ call("is_direct_mapping", <<last.row>>)
    /\ AllUnresolved
    /\ Len(last.new_edges) = 1
    /\ last.new_edges[1].trace_path = "DIRECT_MAPPING"
    /\ last.new_edges[1].dm_match = "N"

\* C8: the single-quoted literals of the text normalize_sql returns are the
\* literals of its input, character for character (texts without a
\* backslash, whose literals are delimited unambiguously).
C8_LiteralsPreserved ==
    pc = "returned" /\ ~contains(sql_orig, "\\") =>
        literals_of(sql_text) = literals_of(sql_orig)

Signature(res) ==
    [i \in 1..Len(res) |->
        [source_type |-> res[i].source_type, table |-> res[i].table,
         column |-> res[i].column, constant_value |-> res[i].constant_value,
         dm_match |-> res[i].dm_match]]

\* C9: the results for an expression and for the same expression in lower
\* case are the same list: same source types, tables, columns, constant
\* values and dm_match, in the same order.
C9_CaseInsensitive ==
    last.kind = "row" /\ stack_limit = StackAmple =>
        Signature(call("resolve_with_fallback", <<str_lower(last.expr), 1, Env>>).res)
            = Signature(last.res)

\* the run of build_scope_tree and of the row's resolution in which the
\* column sets are iterated in the order o
RunWithOrder(o) ==
    call("resolve_with_fallback", <<
        last.expr, 1,
        [Env EXCEPT !.G = call("build_scope_tree", <<sql_ast, "ROOT", None, DmDict(dm_dict), o, <<>>>>).g,
                    !.order = o]>>).res

\* C10: the results of a row do not depend on the order in which the column
\* sets of the data model are iterated: every order gives the list this run
\* gave.
C10_OrderIndependent ==
    last.kind = "row" /\ stack_limit = StackAmple =>
        \A o \in SetOrders(dm_dict) : RunWithOrder(o) = last.res

(***************************************************************************)
(* The JOIN edges of a file                                                 *)
(***************************************************************************)
JoinSides == <<"LEFT", "RIGHT", "FILTER">>

side_rank(side) == CHOOSE k \in 1..Len(JoinSides) : JoinSides[k] = side

\* the number a join_seq cell of an edge was written from
seq_num(cell) == CHOOSE n \in 0..9 : cell = (IF n = 0 THEN "" ELSE int_str(n))

JoinEdges == {i \in 1..Len(edges) : edges[i].row_type = "JOIN"}

\* C11: in the edge list of a file every JOIN edge comes after every MAPPING
\* edge, and the JOIN edges of one owning-scope path are ordered by join_seq
\* and then by side, LEFT before RIGHT before FILTER, also for a join with
\* several key equalities and a filter.
C11_JoinEdgeOrder ==
    \A i, j \in 1..Len(edges) :
        i < j =>
            /\ i \in JoinEdges => j \in JoinEdges
            /\ (i \in JoinEdges /\ j \in JoinEdges
                /\ edges[i].context_path = edges[j].context_path)
               => /\ seq_num(edges[i].join_seq) <= seq_num(edges[j].join_seq)
                  /\ edges[i].join_seq = edges[j].join_seq
                     => side_rank(edges[i].join_side) <= side_rank(edges[j].join_side)

\* the calls of resolve_to_physical made by explode_join_keys itself
TopFrames == {f \in Frames : f.caller.scope = None}

\* the references of a JoinKey that explode_join_keys resolves
key_refs(join) ==
    LET ref(table, field) == IF table # "" THEN table \o "." \o field ELSE field
    IN  (IF join.left_field # "" THEN {ref(join.left_table, join.left_field)} ELSE {})
        \cup (IF join.right_field # "" THEN {ref(join.right_table, join.right_field)}
              ELSE {})

filter_refs(join) ==
    {call("extract_column_refs", <<join.join_filters>>)[i] :
        i \in 1..Len(call("extract_column_refs", <<join.join_filters>>))}

\* C12: every side of every join key and every column reference of every
\* join filter is resolved starting in the scope whose joins list holds the
\* JoinKey, and in no other scope.
C12_JoinsInOwningScope ==
    last.kind = "joins" /\ ~last.exc =>
        /\ \A f \in TopFrames :
              /\ f.scope \in 1..Len(tree)
              /\ \E i \in 1..Len(tree[f.scope].joins) :
                    f.ref \in key_refs(tree[f.scope].joins[i])
                                \cup filter_refs(tree[f.scope].joins[i])
        /\ \A s \in 1..Len(tree) : \A i \in 1..Len(tree[s].joins) :
              \A ref \in key_refs(tree[s].joins[i]) :
                 \E f \in TopFrames : f.scope = s /\ f.ref = ref

\* the join of the subquery is resolved in the subquery, where a is T_A, and
\* the join of the root in the root, where a is T_C
C12_Witness ==
    /\ sql_ast = NestedJoin
    /\ last.kind = "joins"
    /\ \E f \in TopFrames :
          /\ tree[f.scope].name = "ROOT/S"
          /\ f.ref = "A.X"
          /\ \E k \in 1..Len(f.out) : f.out[k].table = "T_A"
    /\ \E f \in TopFrames :
          /\ tree[f.scope].name = "ROOT"
          /\ f.ref = "A.Z"
          /\ \E k \in 1..Len(f.out) : f.out[k].table = "T_C"

(***************************************************************************)
(* The ON clause of a JOIN                                                  *)
(***************************************************************************)
\* the conjuncts of a condition
RECURSIVE conjuncts(_)
conjuncts(c) ==
    IF c.t = "And" THEN conjuncts(c.left) \o conjuncts(c.right)
    ELSE IF c.t = "Paren" THEN conjuncts(c.this)
    ELSE <<c>>

Conjuncts(c) == {conjuncts(c)[i] : i \in 1..Len(conjuncts(c))}

\* the top-level equalities of two simple columns
TopKeys(c) ==
    {e \in Conjuncts(c) : e.t = "EQ" /\ e.left.t = "Column" /\ e.right.t = "Column"}

\* the filters a JoinKey carries, joined with "; "
RECURSIVE split_filters(_)
split_filters(s) ==
    IF s = "" THEN <<>>
    ELSE IF str_find(s, "; ", 1) = 0 THEN <<s>>
    ELSE <<SubSeq(s, 1, str_find(s, "; ", 1) - 1)>>
         \o split_filters(from(s, str_find(s, "; ", 1) + 2))

\* the JoinKeys the root scope holds for its JOIN number seq
RootJoinKeys(seq) ==
    {tree[1].joins[i] : i \in {k \in 1..Len(tree[1].joins) : tree[1].joins[k].join_seq = seq}}

\* the JOINs of the statement that have an ON clause
OnJoins ==
    IF tree = <<>> \/ sql_ast.t # "Select" THEN {}
    ELSE {k \in 1..Len(sql_ast.joins) : sql_ast.joins[k].on # NoOn}

\* C13: the join keys of an ON condition are exactly its top-level equalities
\* of two simple columns; every other top-level equality (column = literal)
\* is among the filters of each key, and no equality nested under OR is a key.
C13_KeysAreTopLevelEqualities ==
    \A k \in OnJoins :
        /\ {j.join_condition : j \in RootJoinKeys(k)}
              = {e.sql : e \in TopKeys(sql_ast.joins[k].on)}
        /\ \A j \in RootJoinKeys(k) :
              \A e \in Conjuncts(sql_ast.joins[k].on) \ TopKeys(sql_ast.joins[k].on) :
                 e.t = "EQ" =>
                    \E i \in 1..Len(split_filters(j.join_filters)) :
                       split_filters(j.join_filters)[i] = e.sql

\* the non-equality predicates of a condition, each with whether it lies
\* inside an OR
RECURSIVE predicates(_, _)
predicates(c, in_or) ==
    IF c.t = "And" THEN predicates(c.left, in_or) \cup predicates(c.right, in_or)
    ELSE IF c.t = "Paren" THEN predicates(c.this, in_or)
    ELSE IF c.t = "Or"
    THEN {[sql |-> c.sql, in_or |-> in_or]}
         \cup predicates(c.left, TRUE) \cup predicates(c.right, TRUE)
    ELSE IF c.t = "Predicate" THEN {[sql |-> c.sql, in_or |-> in_or]}
    ELSE {}

\* how often the JoinKeys of JOIN number seq of the root carry the filter
captures(sql, seq) ==
    Cardinality({p \in (1..Len(tree[1].joins)) \X (1..Len(sql)) :
                    /\ tree[1].joins[p[1]].join_seq = seq
                    /\ p[2] <= Len(split_filters(tree[1].joins[p[1]].join_filters))
                    /\ split_filters(tree[1].joins[p[1]].join_filters)[p[2]] = sql})

\* C14: each non-equality predicate of an ON clause is captured as a filter
\* exactly once in the join's output, and a predicate inside a captured OR
\* is not captured on its own.
C14_FiltersCapturedOnce ==
    \A k \in OnJoins :
        \A p \in predicates(sql_ast.joins[k].on, FALSE) :
            captures(p.sql, k) = IF p.in_or THEN 0 ELSE 1

(***************************************************************************)
(* The scope graph                                                          *)
(***************************************************************************)
\* the scalar subqueries of the expression resolved last
LastSubqueries ==
    IF last.kind = "row" /\ has_scalar_subquery(last.expr)
    THEN {find_all_subquery(last.expr).subqs[i] :
             i \in 1..Len(find_all_subquery(last.expr).subqs)}
    ELSE {}

\* C15: resolution leaves the scope tree as it was: the scope built inline
\* for a scalar subquery is a new scope, every scope that existed before
\* keeps its relations, projections, CTEs, union branches, joins and parent,
\* and every resolve_to_physical call is made in a scope of the tree or in
\* such a new scope below one.
C15_ResolutionLeavesScopes ==
    /\ \A subq \in LastSubqueries :
          /\ sub_scope_of(subq, 1, Env).id > Len(tree)
          /\ SubSeq(sub_scope_of(subq, 1, Env).g, 1, Len(tree)) = tree
          /\ sub_scope_of(subq, 1, Env).g[sub_scope_of(subq, 1, Env).id].parent = 1
    /\ last.kind = "row" =>
          \A f \in Frames :
             f.scope \in 1..Len(tree) \/ (LastSubqueries # {} /\ f.scope > Len(tree))

\* a mapping expression with a scalar subquery was resolved through the
\* scope built for it
C15_Witness ==
    /\ LastSubqueries # {}
    /\ ~last.exc /\ ~last.l1exc
    /\ \E f \in Frames : f.scope > Len(tree) /\ f.out # <<>>
    /\ \E i \in 1..Len(tree) : tree[i].relations # <<>>

\* the owner entries that hold scope s: relations values, ctes values and
\* union_branches elements of the scopes of the graph
Owners(s, G) ==
    {e \in (1..Len(G)) \X {"relations", "ctes", "union_branches"} \X (1..Len(G) + 8) :
        \/ /\ e[2] = "relations"
           /\ e[3] <= Len(G[e[1]].relations)
           /\ G[e[1]].relations[e[3]].kind = "Scope"
           /\ G[e[1]].relations[e[3]].sid = s
        \/ /\ e[2] = "ctes"
           /\ e[3] <= Len(G[e[1]].ctes)
           /\ G[e[1]].ctes[e[3]].sid = s
        \/ /\ e[2] = "union_branches"
           /\ e[3] <= Len(G[e[1]].union_branches)
           /\ G[e[1]].union_branches[e[3]] = s}

\* C16: in the scope graph of a statement every scope but the root is held
\* by exactly one owner entry of exactly one other scope.
C16_ExclusiveOwnership ==
    \A s \in 2..Len(tree) :
        /\ Cardinality(Owners(s, tree)) = 1
        /\ \A e \in Owners(s, tree) : e[1] # s

\* the scopes a scope holds in its relations, ctes and union_branches
Children(s, G) ==
    {G[s].relations[i].sid : i \in {k \in 1..Len(G[s].relations) :
                                       G[s].relations[k].kind = "Scope"}}
    \cup {G[s].ctes[i].sid : i \in {k \in 1..Len(G[s].ctes) : G[s].ctes[k].sid # None}}
    \cup {G[s].union_branches[i] : i \in 1..Len(G[s].union_branches)}

\* the scopes reached from the set S in at most n steps down
RECURSIVE Below(_, _, _)
Below(S, n, G) ==
    IF n = 0 THEN S
    ELSE Below(S \cup UNION {Children(s, G) : s \in S}, n - 1, G)

Descendants(s, G) == Below(Children(s, G), Len(G), G)

\* C17: following relations, ctes and union_branches from a scope never
\* leads back to it, also when a CTE names itself or two CTEs name each
\* other.
C17_DownwardAcyclic ==
    \A s \in 1..Len(tree) : s \notin Descendants(s, tree)

\* the scope graphs of a CTE that selects from itself and of two CTEs that
\* select from each other: the name not yet built became a physical table
C17_Witness ==
    /\ sql_ast \in {SelfCte, MutualCte}
    /\ tree # <<>>
    /\ \E s \in 2..Len(tree) :
          /\ s \in Descendants(1, tree)
          /\ \E i \in 1..Len(tree[s].relations) :
                /\ tree[s].relations[i].kind = "str"
                /\ dict_has(tree[1].ctes, tree[s].relations[i].key)
    /\ sql_ast = MutualCte => \E s \in 2..Len(tree) : Children(s, tree) # {}

(***************************************************************************)
(* The statistics of a file                                                 *)
(***************************************************************************)
MappingEdges == {i \in 1..Len(edges) : edges[i].row_type = "MAPPING"}

UnresolvedMappingEdges == {i \in MappingEdges : edges[i].source_type = "UNRESOLVED"}

HighRateWarnings ==
    {i \in 1..Len(warnings) :
        warnings[i].msg = "HIGH UNRESOLVED RATE" /\ warnings[i].object_name = ObjectName}

\* C18: a high-unresolved-rate warning naming the object is emitted exactly
\* when more than 20% of the object's MAPPING rows are unresolved: none at
\* exactly 20%, none without MAPPING rows, and JOIN rows count on neither
\* side.
C18_WarningAboveTwentyPercent ==
    /\ pc = "done" =>
          (HighRateWarnings # {}
              <=> 5 * Cardinality(UnresolvedMappingEdges) > Cardinality(MappingEdges))
    /\ pc = "done" => Cardinality(HighRateWarnings) <= 1
    /\ pc # "done" => warnings = <<>>

\* a file with one of five MAPPING rows unresolved and an unresolved JOIN row
\* ended without the warning
C18_Witness ==
    /\ pc = "done"
    /\ Cardinality(MappingEdges) = 5
    /\ Cardinality(UnresolvedMappingEdges) = 1
    /\ \E i \in JoinEdges : edges[i].source_type = "UNRESOLVED"
    /\ warnings = <<>>

(***************************************************************************)
(* The phases of the orchestrator                                           *)
(***************************************************************************)
\* C19: a phase is executed only when every earlier phase has succeeded and
\* the human answered yes at the gate before it, whatever runs, pauses,
\* failures and resumes of the task came before; and the saved state is
\* complete only after QA succeeded.
C19_PhasesInOrder ==
    /\ orch_pc = "executor" =>
          /\ \A j \in 1..(phase_i - 1) : PhaseValues[j] \in succeeded
          /\ phase_i > 1 => PhaseValues[phase_i - 1] \in approved
          /\ state_file # <<>> /\ state_file[1].current_phase = PhaseValues[phase_i]
    /\ (state_file # <<>> /\ state_file[1].current_phase = PhaseComplete) =>
          PhaseValues[PhaseCount] \in succeeded

\* QA is executed in a run that resumed the task after a failure
C19_Witness ==
    /\ orch_pc = "executor"
    /\ phase_i = PhaseCount
    /\ state[1].error # ""
    /\ PhaseValues[phase_i] \notin succeeded

(***************************************************************************)
(* Unqualified columns                                                      *)
(***************************************************************************)
\* the relations of the scope that are child scopes with a projection of the
\* column, in declaration order
ChildrenWith(column, sid) ==
    SelectSeq(scope_rels(sid, tree), LAMBDA r : has_proj(r.sid, column, tree))

\* the calls made from outside the resolver for an unqualified column that
\* is no projection of its (non-UNION) scope while a child scope has it, and
\* that neither guard ended
ChildPreferenceFrames ==
    {f \in TopFrames :
        /\ ~f.exc /\ ~f.hit
        /\ f.tlen <= max_depth
        /\ ~call("is_constant", <<f.ref>>)
        /\ call("parse_ref", <<f.ref>>).alias = ""
        /\ f.scope \in 1..Len(tree)
        /\ tree[f.scope].union_branches = <<>>
        /\ ~has_proj(f.scope, f.ref, tree)
        /\ ChildrenWith(f.ref, f.scope) # <<>>}

\* the resolutions of the column through the child scopes that have it
through_children(f) ==
    combine([i \in 1..Len(ChildrenWith(f.ref, f.scope)) |->
        call("resolve_expression", <<
            get_proj(ChildrenWith(f.ref, f.scope)[i].sid, f.ref, tree).expression,
            ChildrenWith(f.ref, f.scope)[i].sid, {cycle_key(f.scope, f.ref)},
            <<tree[f.scope].name, tree[ChildrenWith(f.ref, f.scope)[i].sid].name>>,
            2, NoCaller, Env>>)]).res

\* a Physical result taken from a physical-table relation of the scope
FromOwnTable(r, sid) ==
    /\ r.source_type = "PHYSICAL"
    /\ \E i \in 1..Len(table_rels(sid, tree)) :
          r.trace_path = tree[sid].name \o ":" \o table_rels(sid, tree)[i].tbl
                            \o "." \o r.column

\* C20: an unqualified column that is no projection of the scope and that a
\* child-scope relation projects resolves to the resolutions through those
\* child scopes, in declaration order, and to no Physical result of a
\* physical table of the scope, even when the data model has the column
\* for that table.
C20_ChildScopesPreferred ==
    stack_limit = StackAmple =>
        \A f \in ChildPreferenceFrames :
            /\ f.out = through_children(f)
            /\ \A k \in 1..Len(f.out) : ~FromOwnTable(f.out[k], f.scope)

\* x is projected by both subqueries and is a column of T_A in the data
\* model: it resolves to T_B.P and T_C.Z
C20_Witness ==
    /\ stack_limit = StackAmple
    /\ sql_ast = TableAndSubqueries
    /\ \E f \in ChildPreferenceFrames :
          /\ column_exists_in_dm("T_A", f.ref, DmDict(dm_dict))
          /\ Len(ChildrenWith(f.ref, f.scope)) = 2
          /\ Len(f.out) = 2
          /\ f.out[1].table = "T_B" /\ f.out[2].table = "T_C"
(***************************************************************************)
(* Identity projections and the origin alias                                *)
(***************************************************************************)
\* the calls made from outside the resolver for an unqualified column whose
\* projection in its (non-UNION) scope is an identity, and that neither guard
\* ended
IdentityFrames ==
    {f \in TopFrames :
        /\ ~f.exc /\ ~f.hit
        /\ f.tlen <= max_depth
        /\ ~call("is_constant", <<f.ref>>)
        /\ call("parse_ref", <<f.ref>>).alias = ""
        /\ f.scope \in 1..Len(tree)
        /\ tree[f.scope].union_branches = <<>>
        /\ has_proj(f.scope, f.ref, tree)
        /\ call("is_identity", <<get_proj(f.scope, f.ref, tree), f.ref, f.scope, tree>>)}

\* the trace of the column through one child scope of the frame's scope
child_trace(f, r) ==
    call("trace_to_physical", <<r.sid, f.ref, <<tree[f.scope].name, tree[r.sid].name>>,
                      0, 2, Env>>).res

\* the child scopes that the projection's origin_alias names and that
\* project the column
OriginChildren(f) ==
    SelectSeq(ChildrenWith(f.ref, f.scope),
              LAMBDA r : /\ get_proj(f.scope, f.ref, tree).origin_alias # ""
                         /\ str_upper(r.key)
                              = str_upper(get_proj(f.scope, f.ref, tree).origin_alias))

OriginYields(f) ==
    /\ OriginChildren(f) # <<>>
    /\ child_trace(f, OriginChildren(f)[1]) # <<>>

\* C21: an unqualified column that is an identity projection of its scope
\* resolves to the trace of the child scope its origin_alias names, when that
\* child projects the column and its trace is not empty, wherever the child
\* is declared; otherwise to the trace of the first child scope, in
\* declaration order, whose trace is not empty.
C21_OriginChildPreferred ==
    stack_limit = StackAmple =>
        \A f \in IdentityFrames :
            IF OriginYields(f)
            THEN f.out = child_trace(f, OriginChildren(f)[1])
            ELSE \A i \in 1..Len(ChildrenWith(f.ref, f.scope)) :
                    (/\ child_trace(f, ChildrenWith(f.ref, f.scope)[i]) # <<>>
                     /\ \A j \in 1..(i - 1) :
                           child_trace(f, ChildrenWith(f.ref, f.scope)[j]) = <<>>)
                    => f.out = child_trace(f, ChildrenWith(f.ref, f.scope)[i])

\* r.* produced the projection x and r is declared after s, which projects
\* x too: x resolves to T_B.x, the source of r
C21_Witness ==
    /\ stack_limit = StackAmple
    /\ sql_ast = OriginSecond
    /\ \E f \in IdentityFrames :
          /\ OriginYields(f)
          /\ Len(ChildrenWith(f.ref, f.scope)) = 2
          /\ ChildrenWith(f.ref, f.scope)[2] = OriginChildren(f)[1]
          /\ Len(f.out) = 1 /\ f.out[1].table = "T_B"

\* the origin's child yields nothing and the other child is taken
C21_FallbackWitness ==
    /\ stack_limit = StackAmple
    /\ sql_ast = OriginEmpty
    /\ \E f \in IdentityFrames :
          /\ OriginChildren(f) # <<>> /\ ~OriginYields(f)
          /\ Len(f.out) = 1 /\ f.out[1].table = "T_A"

(***************************************************************************)
(* CTE names inside CTE bodies                                              *)
(***************************************************************************)
\* the CTE scopes of a WITH clause, as pairs of positions in the ctes of
\* the scope that holds the clause
CtePairs(p) ==
    {<<i, j>> \in (1..Len(tree[p].ctes)) \X (1..Len(tree[p].ctes)) :
        /\ i # j
        /\ tree[p].ctes[i].sid # None /\ tree[p].ctes[j].sid # None}

\* C22: no relation of a CTE body is a physical table whose name is the name
\* of another CTE of the same WITH clause, whether that CTE is declared
\* before or after the body: such a name binds to the CTE's scope.
C22_CteNamesBindToScopes ==
    \A p \in 1..Len(tree) :
        \A ij \in CtePairs(p) :
            \A k \in 1..Len(tree[tree[p].ctes[ij[1]].sid].relations) :
                LET r == tree[tree[p].ctes[ij[1]].sid].relations[k]
                IN  r.kind = "str" => str_upper(r.tbl) # tree[p].ctes[ij[2]].key

\* a body that names the CTE declared before it holds that CTE's scope
C22_BackwardWitness ==
    \E p \in 1..Len(tree) :
        \E ij \in CtePairs(p) :
            /\ ij[2] < ij[1]
            /\ \E k \in 1..Len(tree[tree[p].ctes[ij[1]].sid].relations) :
                  LET r == tree[tree[p].ctes[ij[1]].sid].relations[k]
                  IN  r.kind = "Scope" /\ r.sid = tree[p].ctes[ij[2]].sid

(***************************************************************************)
(* Self-reference of a qualified reference                                  *)
(***************************************************************************)
\* the calls for a qualified reference whose alias leads back to the scope
\* of the call, with no physical table of that alias in the scope's subtree,
\* and that neither guard ended
SelfReferenceFrames ==
    {f \in Frames :
        /\ ~f.exc /\ ~f.hit
        /\ f.tlen <= max_depth
        /\ ~call("is_constant", <<f.ref>>)
        /\ call("parse_ref", <<f.ref>>).alias # ""
        /\ f.scope \in 1..Len(tree)
        /\ call("find_relation_in_scope_chain", <<call("parse_ref", <<f.ref>>).alias, f.scope, tree>>).kind = "Scope"
        /\ call("find_relation_in_scope_chain", <<call("parse_ref", <<f.ref>>).alias, f.scope, tree>>).sid = f.scope
        /\ find_physical_table_in_tree(f.scope, str_upper(call("parse_ref", <<f.ref>>).alias), tree) = ""}

\* what a result says, without its trace path and the alias it was written with
outcome(res) ==
    [i \in 1..Len(res) |->
        <<res[i].source_type, res[i].table, res[i].column, res[i].reason, res[i].dm_match>>]

\* the column of the reference resolved as an unqualified reference in the
\* same scope, with an empty visited set and a trace of the same length
unqualified_in(f) ==
    call("resolve_to_physical", <<call("parse_ref", <<f.ref>>).column, f.scope, {},
                        [i \in 1..f.tlen |-> tree[f.scope].name],
                        f.frames, NoCaller, Env>>).res

\* C23: a qualified reference A.C whose alias is the scope of the call
\* itself, with no physical table aliased A in the scope's subtree, resolves
\* as the unqualified reference C does in that scope with a visited set
\* empty of the enclosing keys; in particular it does not end in
\* CYCLE_DETECTED because of the self-reference.
C23_SelfReferenceResolvesUnqualified ==
    stack_limit = StackAmple =>
        \A f \in SelfReferenceFrames : outcome(f.out) = outcome(unqualified_in(f))

(***************************************************************************)
(* The references of an expression                                          *)
(***************************************************************************)
\* the references extracted from the expression of the row just processed
RowRefs == call("extract_column_refs", <<last.expr>>)

\* C24: the list extract_column_refs returns for an expression holds only
\* upper-case references, none of them twice, and no SQL keyword, no listed
\* function name, no literal placeholder and no constant token.
C24_RefsCanonicalAndDistinct ==
    last.kind = "row" =>
        /\ \A i \in 1..Len(RowRefs) :
              /\ RowRefs[i] = str_upper(RowRefs[i])
              /\ RowRefs[i] \notin SqlKeywords
              /\ RowRefs[i] \notin KnownFunctions
              /\ ~startswith(RowRefs[i], "__LIT")
              /\ ~call("is_constant", <<RowRefs[i]>>)
        /\ \A i, j \in 1..Len(RowRefs) : i < j => RowRefs[i] # RowRefs[j]

\* an expression with a keyword-free function call, a constant and two
\* different columns: the list is the two columns
C24_DistinctWitness ==
    /\ last.kind = "row"
    /\ Len(RowRefs) = 2 /\ RowRefs[1] # RowRefs[2]

\* the references of the row just processed hold one reference twice
C24_RepeatedReference ==
    /\ last.kind = "row"
    /\ \E i, j \in 1..Len(RowRefs) : i < j /\ RowRefs[i] = RowRefs[j]

(***************************************************************************)
(* Comments and string literals                                             *)
(***************************************************************************)
\* A one-pass machine over the characters of a text. Its modes: "code",
\* "dash" (a - seen in code, held back), "slash" (a / seen in code, held
\* back), "str" (inside a string), "quote" (a quote seen inside a string: the
\* end of the string unless another quote follows), "line" (inside a --
\* comment), "block" (inside a /* */ comment) and "star" (a * seen inside a
\* block comment).
held(mode) == IF mode = "dash" THEN "-" ELSE IF mode = "slash" THEN "/" ELSE ""

\* the mode after reading the character c
machine_next(mode, c) ==
    IF mode = "str" THEN (IF c = "'" THEN "quote" ELSE "str")
    ELSE IF mode = "quote" /\ c = "'" THEN "str"
    ELSE IF mode = "line" THEN (IF c = "\n" THEN "code" ELSE "line")
    ELSE IF mode = "block" THEN (IF c = "*" THEN "star" ELSE "block")
    ELSE IF mode = "star"
         THEN (IF c = "/" THEN "code" ELSE IF c = "*" THEN "star" ELSE "block")
    \* code, dash, slash, or a string that has just ended
    ELSE IF c = "-" /\ mode = "dash" THEN "line"
    ELSE IF c = "*" /\ mode = "slash" THEN "block"
    ELSE IF c = "'" THEN "str"
    ELSE IF c = "-" THEN "dash"
    ELSE IF c = "/" THEN "slash"
    ELSE "code"

\* the characters copied on reading the character c
machine_out(mode, c) ==
    IF mode = "str" \/ (mode = "quote" /\ c = "'") THEN c
    ELSE IF mode = "line" THEN (IF c = "\n" THEN c ELSE "")
    ELSE IF mode \in {"block", "star"} THEN ""
    ELSE IF (c = "-" /\ mode = "dash") \/ (c = "*" /\ mode = "slash") THEN ""
    ELSE IF c \in {"-", "/"} THEN held(mode)
    ELSE held(mode) \o c

\* the machine run over text[lo..hi] from a mode: what it copies and the
\* mode it ends in
RECURSIVE machine_run(_, _, _, _)
machine_run(text, lo, hi, mode) ==
    IF lo > hi THEN [out |-> "", mode |-> mode]
    ELSE IF lo = hi
    THEN [out |-> machine_out(mode, ch(text, lo)), mode |-> machine_next(mode, ch(text, lo))]
    ELSE LET mid == (lo + hi) \div 2
             l == machine_run(text, lo, mid, mode)
             r == machine_run(text, mid + 1, hi, l.mode)
         IN  [out |-> l.out \o r.out, mode |-> r.mode]

comment_machine(text) ==
    LET r == machine_run(text, 1, Len(text), "code") IN r.out \o held(r.mode)

\* C25: strip_comments copies what a one-pass machine over the characters
\* copies: every character of a single-quoted string, '' not ending the
\* string, also when the characters form -- or /*; no quote inside a
\* comment opens a string; and what is removed is each -- comment up to, not
\* including, its newline and each /* */ comment that starts outside a string.
C25_StripCommentsIsOnePass ==
    [][pc = "strip_comments" => sql_text' = comment_machine(sql_text)]_vars

\* a block comment holding a quote, a string holding --, and a -- comment
\* holding a quote and ended by a newline, after strip_comments
C25_Witness ==
    /\ pc = "normalize_whitespace"
    /\ sql_orig = "a /*'*/ 'b--' --'\n c"
    /\ sql_text = "a  'b--' \n c"

(***************************************************************************)
(* UNPIVOT columns                                                          *)
(***************************************************************************)
\* the marker expression of each value column and FOR column of the
\* UNPIVOT operators of the statement, by upper-case column name
UnpivotMarkers ==
    LET ps == find_all_pivot(sql_ast)
        marker(col, word) == <<str_upper(col.name), word \o "(" \o str_upper(col.name) \o ")">>
    IN  UNION {{marker(ps[i].expressions[k], "UNPIVOT_VALUE") :
                   k \in 1..Len(ps[i].expressions)}
               \cup {marker(ps[i].fields[k].this, "UNPIVOT_FOR") :
                        k \in 1..Len(ps[i].fields)} :
               i \in {j \in 1..Len(ps) : ps[j].unpivot}}

\* the calls made from outside the resolver, in the root scope, for a value
\* column or FOR column of an UNPIVOT of the statement, that no guard ended
UnpivotFrames ==
    {f \in TopFrames :
        /\ ~f.exc /\ ~f.hit
        /\ f.tlen <= max_depth
        /\ f.scope = 1
        /\ \E m \in UnpivotMarkers : m[1] = f.ref}

\* C26: in the scope of a SELECT with an UNPIVOT, the value column and the
\* FOR column resolve to one Constant result, the UNPIVOT_VALUE / UNPIVOT_FOR
\* marker of the column, and to no Physical result, also when the SELECT
\* list names the column.
C26_UnpivotColumnsAreConstant ==
    stack_limit = StackAmple =>
        \A f \in UnpivotFrames :
            /\ Len(f.out) = 1
            /\ f.out[1].source_type = "CONSTANT"
            /\ <<f.ref, f.out[1].constant_value>> \in UnpivotMarkers

\* v and k, renamed by the SELECT list, resolve to their markers
C26_MarkerWitness ==
    /\ sql_ast = UnpivotAliased
    /\ \E f \in UnpivotFrames :
          /\ f.ref = "K" /\ Len(f.out) = 1
          /\ f.out[1].source_type = "CONSTANT"
          /\ f.out[1].constant_value = "UNPIVOT_FOR(K)"

(***************************************************************************)
(* The joins collected from the scope graph                                 *)
(***************************************************************************)
\* the <<join, scope>> pairs collected from the root of the built graph
CollectedJoins == collect_joins_with_scopes(1, tree)

\* how often the k-th join of scope s is among the collected pairs
times_collected(s, k) ==
    Cardinality({i \in 1..Len(CollectedJoins) :
                    /\ CollectedJoins[i].scope = s
                    /\ CollectedJoins[i].join = tree[s].joins[k]})

\* C27: every JoinKey of the scope graph is collected exactly once, with
\* the scope that owns it; the joins of a CTE body referenced in FROM and of
\* a subquery inside a UNION branch are collected once.
C27_JoinsCollectedOnce ==
    tree # <<>> =>
        \A s \in {1} \cup Descendants(1, tree) :
            \A k \in 1..Len(tree[s].joins) : times_collected(s, k) = 1

\* a subquery with a join and a root with a join: two pairs, each once
C27_NestedWitness ==
    /\ sql_ast = NestedJoin
    /\ tree # <<>>
    /\ Len(CollectedJoins) = 2
    /\ CollectedJoins[1].scope # CollectedJoins[2].scope

(***************************************************************************)
(* Physical tables of a scope and the data model                            *)
(***************************************************************************)
\* the data model lists the column for the table
InDataModel(table, column) ==
    /\ str_upper(table) \in DOMAIN dm_dict
    /\ str_upper(column) \in dm_dict[str_upper(table)]

\* the calls for an unqualified column that is a projection neither of the
\* (non-UNION) scope of the call nor of a child scope of it, and that
\* neither guard ended
DataModelFrames ==
    {f \in Frames :
        /\ ~f.exc /\ ~f.hit
        /\ f.tlen <= max_depth
        /\ ~call("is_constant", <<f.ref>>)
        /\ call("parse_ref", <<f.ref>>).alias = ""
        /\ f.scope \in 1..Len(tree)
        /\ tree[f.scope].union_branches = <<>>
        /\ ~has_proj(f.scope, f.ref, tree)
        /\ ChildrenWith(f.ref, f.scope) = <<>>}

\* the physical tables of the scope for which the data model lists the column
DataModelTables(f) ==
    SelectSeq(table_rels(f.scope, tree), LAMBDA r : InDataModel(r.tbl, f.ref))

\* C28: an unqualified column that is a projection neither of the scope nor
\* of a child scope resolves to the physical tables of the scope for which
\* the data model lists it, each with dm_match Y; when there is none, as
\* with an empty data model, the result is that of the parent scope, or
\* Unresolved COLUMN_NOT_FOUND in a scope without parent.
C28_PhysicalOnlyFromDataModel ==
    stack_limit = StackAmple =>
        \A f \in DataModelFrames :
            IF DataModelTables(f) # <<>>
            THEN /\ Len(f.out) = Len(DataModelTables(f))
                 /\ \A k \in 1..Len(f.out) :
                       /\ f.out[k].source_type = "PHYSICAL"
                       /\ f.out[k].table = DataModelTables(f)[k].tbl
                       /\ f.out[k].column = f.ref
                       /\ f.out[k].dm_match = "Y"
            ELSE IF tree[f.scope].parent = None
            THEN /\ Len(f.out) = 1
                 /\ f.out[1].source_type = "UNRESOLVED"
                 /\ f.out[1].reason = "COLUMN_NOT_FOUND"
            ELSE \E g \in Frames :
                    /\ g.caller.scope = f.scope
                    /\ g.scope = tree[f.scope].parent
                    /\ g.ref = f.ref
                    /\ g.out = f.out

\* y is no projection of the root nor of the two subqueries, and the data
\* model lists it for T_A: one Physical result with dm_match Y
C28_Witness ==
    /\ stack_limit = StackAmple
    /\ sql_ast = TableAndSubqueries
    /\ \E f \in DataModelFrames :
          /\ f.ref = "Y"
          /\ Len(DataModelTables(f)) = 1
          /\ Len(f.out) = 1
          /\ f.out[1].table = "T_A" /\ f.out[1].dm_match = "Y"

\* with the empty data model the same column ends in COLUMN_NOT_FOUND
C28_EmptyModelWitness ==
    /\ stack_limit = StackAmple
    /\ sql_ast = TableAndSubqueries
    /\ DOMAIN dm_dict = {}
    /\ \E f \in DataModelFrames :
          /\ f.ref = "Y" /\ f.out[1].reason = "COLUMN_NOT_FOUND"

\* a column of a subquery without relations is looked up in the parent
C28_ParentWitness ==
    /\ stack_limit = StackAmple
    /\ \E f \in DataModelFrames : tree[f.scope].parent # None

(***************************************************************************)
(* Completed phases of the orchestrator                                     *)
(***************************************************************************)
\* the phases_completed list of a TaskState is the first phases of the
\* phase order, each once
IsPhasePrefix(completed) ==
    /\ Len(completed) <= PhaseCount
    /\ \A k \in 1..Len(completed) : completed[k] = PhaseValues[k]

C29_CompletedIsPrefix ==
    /\ state # <<>> => IsPhasePrefix(state[1].phases_completed)
    /\ state_file # <<>> => IsPhasePrefix(state_file[1].phases_completed)

\* C29: no executor runs for a phase that the task's phases_completed
\* already holds, so a task resumed after a pause at a gate starts with the
\* phase after the completed one; and phases_completed is a duplicate-free
\* prefix of the phase order.
C29_CompletedPhaseNotRepeated ==
    /\ orch_pc = "executor" =>
          \A k \in 1..Len(state[1].phases_completed) :
              state[1].phases_completed[k] # PhaseValues[phase_i]
    /\ C29_CompletedIsPrefix

\* an executor runs for the phase that the resumed task completed last
C29_RepeatedAfterPause ==
    /\ orch_pc = "executor"
    /\ Len(state[1].phases_completed) = phase_i
    /\ state[1].phases_completed[phase_i] = PhaseValues[phase_i]
    /\ state[1].error = ""

(***************************************************************************)
(* The references of one expression                                         *)
(***************************************************************************)
\* the call of the log inside which call i was made (0: none); a call is
\* followed in the log by the sub calls made inside it
Parent(i) ==
    LET above == {p \in 1..(i - 1) : p + last.log[p].sub >= i}
    IN  IF above = {} THEN 0 ELSE CHOOSE p \in above : \A q \in above : q <= p

\* two calls made for references of the same expression: made inside the
\* same call, in the same scope and at the same depth of call
Siblings(i, j) ==
    /\ i < j
    /\ Parent(i) = Parent(j)
    /\ last.log[i].caller = last.log[j].caller
    /\ last.log[i].scope = last.log[j].scope
    /\ last.log[i].frames = last.log[j].frames

\* the calls resolve_expression makes for the references of the expression
\* of a mapping row: no caller, one call below the expression (a reference
\* inside a scalar subquery lies deeper, in the scope of the subquery)
RowCalls == {i \in 1..Len(last.log) : /\ last.log[i].caller.scope = None
                                      /\ last.log[i].frames = 2}

\* C30: the references of one expression are each resolved with the visited
\* set and the trace the expression was given: a call for a reference of a
\* mapping row starts with an empty visited set and a trace of one entry
\* and is not ended by the cycle guard, sibling calls get equal visited sets
\* and traces of equal length, and a reference mentioned twice resolves the
\* second time as the first.
C30_SiblingReferencesIndependent ==
    (last.kind = "row" /\ stack_limit = StackAmple) =>
        /\ \A i \in RowCalls :
              /\ last.log[i].visited = {}
              /\ last.log[i].tlen = 1
              /\ ~last.log[i].hit
        /\ \A i, j \in 1..Len(last.log) :
              Siblings(i, j) =>
                  /\ last.log[i].visited = last.log[j].visited
                  /\ last.log[i].tlen = last.log[j].tlen
                  /\ last.log[i].ref = last.log[j].ref
                     => last.log[i].out = last.log[j].out

\* x + X: the two calls for X give the same Physical result
C30_Witness ==
    /\ last.kind = "row" /\ stack_limit = StackAmple
    /\ sql_ast = NoOrigin
    /\ \E i, j \in RowCalls :
          /\ i < j
          /\ last.log[i].ref = "X" /\ last.log[j].ref = "X"
          /\ Len(last.log[j].out) = 1
          /\ last.log[j].out[1].source_type = "PHYSICAL"
          /\ last.log[i].out = last.log[j].out

\* two different references of one expression, each resolved on its own
C30_TwoReferencesWitness ==
    /\ last.kind = "row" /\ stack_limit = StackAmple
    /\ \E i, j \in RowCalls :
          /\ i < j /\ last.log[i].ref # last.log[j].ref
          /\ Siblings(i, j)

\* siblings below the mapping row: the references of a projection's
\* expression, resolved inside the call for the projection
C30_NestedWitness ==
    /\ last.kind = "row" /\ stack_limit = StackAmple
    /\ \E i, j \in 1..Len(last.log) :
          /\ Siblings(i, j) /\ Parent(i) # 0
          /\ last.log[i].ref = last.log[j].ref
          /\ Len(last.log[j].out) = 1
          /\ last.log[j].out[1].source_type = "PHYSICAL"


====
